---- MODULE Spec2Model ----
(***************************************************************************)
(* Model of the station/battery backend (src/server.js) together with the  *)
(* server-side locationManager (src/map_view.js, "locations.js" part).     *)
(*                                                                         *)
(* JavaScript strings are sequences of one-token strings (<<"R","1">>), so *)
(* that trim() and string comparison are computed, not assumed.            *)
(* All times are milliseconds, as Date.now() returns them.                 *)
(***************************************************************************)
EXTENDS Integers, Sequences, FiniteSets, TLC

VARIABLES
    now,            \* Date.now()
    apiCache,       \* Map: cache key -> [data, timestamp]
    lastRead,       \* the last getCachedData call: key, entry found, time, result
    battReq,        \* the GET /api/battery/:batteryId request in progress / last answered
    stReq,          \* the GET /api/stations request in progress / last answered
    adminReq,       \* the /api/admin/stations request in progress / last answered
    registry,       \* the external station database behind locationManager
    lastMerge,      \* the last station merge: its route, inputs and result
    proc,           \* the Node process: "running", "exited", "crashed"
    phase,          \* startup sequence position
    health,         \* what checkApiHealth() resolved to, and when: [result, at]
    startedAt,      \* Date.now() when startBackgroundPolling was called, -1 before
    healthChecks,   \* number of supplierApi.checkApiHealth() calls made
    retryDue,       \* due time of setTimeout(startBackgroundPolling, 30000), -1 if none
    stationPollingStop,         \* let stationPollingStop = null
    batteryPollingStop,         \* let batteryPollingStop = null
    energoTokenKeepAliveStop,   \* let energoTokenKeepAliveStop = null
    loops,          \* supplierApi's interval loops: name -> [armed, due, ids, pc, data, lastFailed]
    stopsInvoked,   \* stop functions invoked by a shutdown handler
    statsSaved,     \* qrStats.saveStats() has run
    exitPhase,      \* phase in which the shutdown signal arrived
    nodeEnv,        \* process.env.NODE_ENV
    fetches,        \* station fetches in flight: [order, overtaken] (see StartFetch)
    pageReq,        \* the GET /:batteryId page request last handled
    proxy,          \* the proxy server: the API request in progress / last answered
    scan,           \* scan_service.js: initScanService and its two fetches
    battModal,      \* scan_service.js: durationTimer, the interval timers, the modal
    dur,            \* scan_service.js: the last duration conversion: input and results
    mapView         \* map_view.js: stations, selection, the data of the 'stations' source

vars == <<now, apiCache, lastRead, battReq, stReq, adminReq, registry, lastMerge, proc,
          phase,
          health, startedAt, healthChecks, retryDue, stationPollingStop, batteryPollingStop,
          energoTokenKeepAliveStop, loops, stopsInvoked, statsSaved, exitPhase,
          nodeEnv, fetches, pageReq, proxy, scan, battModal, dur, mapView>>

serverVars == <<now, apiCache, lastRead, battReq, stReq, adminReq, registry, lastMerge, proc,
                phase, health, startedAt, healthChecks, retryDue, stationPollingStop,
                batteryPollingStop, energoTokenKeepAliveStop, loops, stopsInvoked,
                statsSaved, exitPhase, nodeEnv, fetches>>
clientVars == <<pageReq, proxy, scan, battModal, dur, mapView>>

httpVars == <<battReq, stReq, adminReq>>
lifeVars == <<proc, phase, health, startedAt, healthChecks, retryDue, stationPollingStop, batteryPollingStop,
              energoTokenKeepAliveStop, loops, stopsInvoked, statsSaved, exitPhase>>

----------------------------------------------------------------------------
(* Bounds of the model *)

TimeStep == 5000        \* granularity of the request-side clock, ms
MaxNow == 30000         \* the request-side clock stops here
PollStep == 30000       \* granularity of the polling-side clock, ms
MaxPollNow == 120000    \* the polling-side clock stops here

----------------------------------------------------------------------------
(* Program constants *)

\* A time to live that outlasts the station poll interval
CACHE_TTL_Long == 2 * 30000

CACHE_TTL == 10000
STATION_POLL_INTERVAL == 30000
BATTERY_POLL_INTERVAL == 60000
KEEPALIVE_INTERVAL == 60000
RETRY_DELAY == 30000

----------------------------------------------------------------------------
(* JavaScript values *)

Str(s) == [type |-> "string", str |-> s]
Undefined == [type |-> "undefined", str |-> << >>]
Num == [type |-> "number", str |-> << >>]       \* a non-zero number

\* !v for the values a map entry can hold
Falsy(v) == v.type = "undefined" \/ (v.type = "string" /\ v.str = << >>)

RECURSIVE TrimLeft(_)
TrimLeft(s) == IF s # << >> /\ Head(s) = " " THEN TrimLeft(Tail(s)) ELSE s

RECURSIVE TrimRight(_)
TrimRight(s) ==
    IF s # << >> /\ s[Len(s)] = " " THEN TrimRight(SubSeq(s, 1, Len(s) - 1)) ELSE s

\* String.prototype.trim
Trim(s) == TrimRight(TrimLeft(s))

----------------------------------------------------------------------------
(* The static battery id map (./public/batteryIdMap): custom id -> real id *)

A1 == <<"A", "1">>
A2 == <<"A", "2">>
E0 == <<"E", "0">>
E1 == <<"E", "1">>
U0 == <<"U", "0">>
N7 == <<"N", "7">>
ZZ == <<"Z", "Z">>
R1 == <<"R", "1">>

batteryIdMap ==
    (A1 :> Str(R1)) @@ (A2 :> Str(R1)) @@ (E0 :> Str(<< >>)) @@
    (E1 :> Str(<<" ", " ">>)) @@ (U0 :> Undefined) @@ (N7 :> Num)

\* Property names every plain object inherits from Object.prototype
ObjectPrototypeKeys == {<<"constructor">>, <<"toString">>}

\* The value an inherited property reads as: a function or an object, never a string
Inherited == [type |-> "object", str |-> << >>]

\* batteryId in batteryIdMap  (own or inherited property)
InMap(batteryId) == batteryId \in DOMAIN batteryIdMap \/ batteryId \in ObjectPrototypeKeys

\* batteryIdMap[batteryId]
MapGet(batteryId) ==
    IF batteryId \in DOMAIN batteryIdMap THEN batteryIdMap[batteryId]
    ELSE IF batteryId \in ObjectPrototypeKeys THEN Inherited
    ELSE Undefined

\* The ids a client can put in the URL
RequestIds == DOMAIN batteryIdMap \cup ObjectPrototypeKeys \cup {ZZ}

----------------------------------------------------------------------------
(* API cache *)

StationsKey == [ns |-> "stations", id |-> << >>]
BatteryKey(realId) == [ns |-> "battery_", id |-> realId]

\* Fresh with the boundary on the wrong side: <= instead of <
Fresh_Inclusive(cache, key, t) ==
    key \in DOMAIN cache /\ t - cache[key].timestamp <= CACHE_TTL

\* The condition of getCachedData: the entry is served
Fresh(cache, key, t) == key \in DOMAIN cache /\ t - cache[key].timestamp < CACHE_TTL

\* getCachedData(key): the value returned (isNull, or the stored data)
getCachedData(cache, key, t) ==
    IF Fresh(cache, key, t)
    THEN [isNull |-> FALSE, data |-> cache[key].data]
    ELSE [isNull |-> TRUE, data |-> {}]

\* getCachedData emptying the whole cache on a miss
CacheAfterGet_Clear(cache, key, t) == IF Fresh(cache, key, t) THEN cache ELSE << >>

\* getCachedData(key): the cache it leaves (apiCache.delete on a miss)
CacheAfterGet(cache, key, t) ==
    IF Fresh(cache, key, t) THEN cache
    ELSE [k \in DOMAIN cache \ {key} |-> cache[k]]

\* apiCache.set(key, {data, timestamp: Date.now()})
CacheSet(cache, key, data, t) ==
    [k \in DOMAIN cache \cup {key} |->
        IF k = key THEN [data |-> data, timestamp |-> t] ELSE cache[k]]

\* What a read is remembered as
ReadRecord(cache, key, t) ==
    [done |-> TRUE, key |-> key,
     found |-> key \in DOMAIN cache,
     entry |-> IF key \in DOMAIN cache THEN cache[key] ELSE [data |-> {}, timestamp |-> 0],
     at |-> t,
     result |-> getCachedData(cache, key, t)]

NoRead == [done |-> FALSE, key |-> StationsKey, found |-> FALSE,
           entry |-> [data |-> {}, timestamp |-> 0], at |-> 0,
           result |-> [isNull |-> TRUE, data |-> {}]]

----------------------------------------------------------------------------
(* Responses *)

Response(status, body) == [status |-> status, body |-> body]
NoResponse == Response(0, "")

NodeEnvs == {"production", "development"}

\* The text an upstream API (supplier, stations API) puts in its error answers
VendorError == "vendor: upstream error text"
NoMessage == ""      \* an error field or message that is absent or empty

\* error || fallback
ErrorOr(error, fallback) == IF error = NoMessage THEN fallback ELSE error

\* The handler answering with the message of the exception in every environment
GlobalErrorHandler_Detailed(env, message) == Response(500, message)

\* app.use((err, req, res, next) => ...): an exception thrown in a route
GlobalErrorHandler(env, message) ==
    Response(500, IF env = "production" THEN "Internal server error" ELSE message)

----------------------------------------------------------------------------
(* GET /api/battery/:batteryId *)

BatteryData == {"d1", "d2"}

\* validateBatteryId without its second check (the real id is never looked at)
validateBatteryId_NoConfigCheck(batteryId) ==
    IF batteryId = << >> \/ ~InMap(batteryId)
    THEN [kind |-> "respond", response |-> Response(400, "Invalid battery ID"),
          message |-> NoMessage]
    ELSE [kind |-> "next", response |-> NoResponse, message |-> NoMessage]

\* validateBatteryId: "next" when the request goes on to the handler, "throw"
\* when the middleware throws and Express hands the error to the error handler
validateBatteryId(batteryId) ==
    IF batteryId = << >> \/ ~InMap(batteryId)
    THEN [kind |-> "respond", response |-> Response(400, "Invalid battery ID"),
          message |-> NoMessage]
    ELSE LET realBatteryId == MapGet(batteryId) IN
         IF Falsy(realBatteryId)
         THEN [kind |-> "respond", response |-> Response(400, "Battery ID not configured"),
               message |-> NoMessage]
         ELSE IF realBatteryId.type # "string"
         THEN [kind |-> "throw", response |-> NoResponse,
               message |-> "realBatteryId.trim is not a function"]
         ELSE IF Trim(realBatteryId.str) = << >>
         THEN [kind |-> "respond", response |-> Response(400, "Battery ID not configured"),
               message |-> NoMessage]
         ELSE [kind |-> "next", response |-> NoResponse, message |-> NoMessage]

\* The cache key built from the id of the URL
BatteryCacheKey_Custom(customBatteryId, realBatteryId) == BatteryKey(customBatteryId)

\* const cacheKey = `battery_${realBatteryId}`
BatteryCacheKey(customBatteryId, realBatteryId) == BatteryKey(realBatteryId.str)

\* The handler passing the id of the URL on to the supplier
FindBatteryArg_Custom(customBatteryId, realBatteryId) == Str(customBatteryId)

\* The argument of supplierApi.findBatteryById(realBatteryId)
FindBatteryArg(customBatteryId, realBatteryId) == realBatteryId

\* A failed lookup answered like an exception
BatteryLookupFailed_500(error) == Response(500, "Internal server error")

\* The answer to a lookup the supplier answered with success = false:
\* res.status(404).json({ error: result.error || "Battery not found" })
BatteryLookupFailed(error) == Response(404, ErrorOr(error, "Battery not found"))

\* The answer of the catch block of the battery route
BatteryLookupThrew(message) == Response(500, "Internal server error")

\* What supplierApi.findBatteryById resolves to
BatteryResults ==
    {[success |-> TRUE, data |-> d, error |-> NoMessage] : d \in BatteryData}
        \cup {[success |-> FALSE, data |-> "", error |-> e] : e \in {NoMessage, VendorError}}

\* The handler reading the cache and going to the supplier all the same
CacheHit_Never(cachedData) == FALSE

\* if (cachedData): the request is answered from the cache
CacheHit(cachedData) == ~cachedData.isNull

\* The handler caching whatever the supplier answered
CacheAfterLookup_Always(cache, key, result, t) == CacheSet(cache, key, result.data, t)

\* if (result.success) apiCache.set(cacheKey, ...): the cache after the lookup
CacheAfterLookup(cache, key, result, t) ==
    IF result.success THEN CacheSet(cache, key, result.data, t) ELSE cache

IdleBattery ==
    [pc |-> "idle", id |-> << >>, key |-> StationsKey, read |-> FALSE, called |-> FALSE,
     calledWith |-> Undefined, wrote |-> FALSE, supplier |-> "none",
     response |-> NoResponse, thrown |-> NoMessage, error |-> NoMessage,
     changed |-> FALSE]     \* changed: the handler has changed apiCache

\* The request up to its first await: validation, cache lookup, supplier call
BatteryRequest(batteryId) ==
    /\ proc = "running"
    /\ battReq.pc # "awaitSupplier"
    /\ LET v == validateBatteryId(batteryId)
           req == [IdleBattery EXCEPT !.id = batteryId]
       IN IF v.kind # "next"
          THEN /\ battReq' = [req EXCEPT !.pc = "done", !.thrown = v.message,
                                  !.response = IF v.kind = "throw"
                                               THEN GlobalErrorHandler(nodeEnv, v.message)
                                               ELSE v.response]
               /\ lastRead' = NoRead
               /\ UNCHANGED apiCache
          ELSE LET realBatteryId == MapGet(batteryId)
                   cacheKey == BatteryCacheKey(batteryId, realBatteryId)
                   cachedData == getCachedData(apiCache, cacheKey, now)
                   read == [req EXCEPT !.key = cacheKey, !.read = TRUE,
                                       !.changed =
                                           CacheAfterGet(apiCache, cacheKey, now) # apiCache]
               IN /\ lastRead' = ReadRecord(apiCache, cacheKey, now)
                  /\ apiCache' = CacheAfterGet(apiCache, cacheKey, now)
                  /\ IF CacheHit(cachedData)
                     THEN battReq' = [read EXCEPT !.pc = "done",
                                          !.response = Response(200, cachedData.data)]
                     ELSE battReq' = [read EXCEPT !.pc = "awaitSupplier", !.called = TRUE,
                                          !.calledWith =
                                              FindBatteryArg(batteryId, realBatteryId)]
    /\ UNCHANGED <<now, stReq, adminReq, registry, lastMerge>>
    /\ UNCHANGED lifeVars
    /\ UNCHANGED <<nodeEnv, fetches>>
    /\ UNCHANGED clientVars

\* await supplierApi.findBatteryById(...) settles: success, success = false, or throws
BatterySupplierReturn ==
    /\ proc = "running"
    /\ battReq.pc = "awaitSupplier"
    /\ \/ \E result \in BatteryResults :
            LET cache == CacheAfterLookup(apiCache, battReq.key, result, now)
                req == [battReq EXCEPT !.pc = "done",
                                       !.changed = battReq.changed \/ cache # apiCache]
            IN
            /\ apiCache' = cache
            /\ battReq' =
                 IF result.success
                 THEN [req EXCEPT !.wrote = TRUE, !.supplier = "success",
                                  !.response = Response(200, result.data)]
                 ELSE [req EXCEPT !.supplier = "notfound", !.error = result.error,
                                  !.response = BatteryLookupFailed(result.error)]
       \/ /\ battReq' = [battReq EXCEPT !.pc = "done", !.supplier = "threw",
                                        !.error = VendorError,
                                        !.response = BatteryLookupThrew(VendorError)]
          /\ UNCHANGED apiCache
    /\ lastRead' = NoRead
    /\ UNCHANGED <<now, stReq, adminReq, registry, lastMerge>>
    /\ UNCHANGED lifeVars
    /\ UNCHANGED <<nodeEnv, fetches>>
    /\ UNCHANGED clientVars

----------------------------------------------------------------------------
(* locationManager: the station registry behind the external stations API *)

StationIds == {"S1", "S2"}
VolatileStations == {"S2"}      \* the stations other clients of the API add and remove
Titled == <<"Main St">>
Untitled == << >>
Titles == {Titled, Untitled}

\* parseFloat(station.longitude), parseFloat(station.latitude)
CoordinatesOf(id) == IF id = "S1" THEN <<-87, 41>> ELSE <<-88, 42>>

\* locationManager.getAll(): the rows in internal format, [] when the fetch fails
getAll(reg, ok) ==
    IF ok
    THEN {[id |-> id, name |-> reg[id], coordinates |-> CoordinatesOf(id)] : id \in DOMAIN reg}
    ELSE {}

\* locationManager.getById(id): the row, null when absent or when the fetch fails
getById(reg, id, ok) ==
    IF ok /\ id \in DOMAIN reg
    THEN [isNull |-> FALSE, id |-> id, name |-> reg[id]]
    ELSE [isNull |-> TRUE, id |-> id, name |-> << >>]

\* locationManager.isOpen(id)
isOpen(id) == TRUE

----------------------------------------------------------------------------
(* Station merge *)

Suppliers == {"A", "B"}

\* The supplier that owns a station id, by id pattern
OwnerOf(id) == IF id = "S1" THEN "A" ELSE "B"

\* The adapter falling back to the other supplier when the owner is down
SupplierOf_Fallback(id, up) ==
    IF up THEN OwnerOf(id) ELSE CHOOSE o \in Suppliers : o # OwnerOf(id)

\* The supplier the adapter asks for a station id, whether the supplier is up or not
SupplierOf(id, up) == OwnerOf(id)

\* supplierApi.fetchMultipleStations(ids): one record per id
SupplierStation(id, up) ==
    IF up THEN [id |-> id, available |-> 3, occupied |-> 1, error |-> FALSE,
                source |-> SupplierOf(id, up)]
    ELSE [id |-> id, available |-> 0, occupied |-> 0, error |-> TRUE,
          source |-> SupplierOf(id, up)]

\* The station fetches in flight. order: their routes in the order the fetches
\* started; overtaken: the routes whose fetch is still in flight while data of a
\* fetch that started later has been written to the 'stations' entry
NoFetches == [order |-> << >>, overtaken |-> {}]

Without(order, route) == SelectSeq(order, LAMBDA r : r # route)

\* The routes whose fetch in flight started before the fetch of `route`
StartedBefore(order, route) ==
    {order[i] : i \in {j \in DOMAIN order : \E k \in DOMAIN order : j < k /\ order[k] = route}}

\* A route calls the supplier
StartFetch(f, route) == [f EXCEPT !.order = Append(f.order, route)]

\* The fetch of a route ends without a cache write
EndFetch(f, route) ==
    [order |-> Without(f.order, route), overtaken |-> f.overtaken \ {route}]

\* The data of the fetch of a route is written to the 'stations' entry
WriteFetch(f, route) ==
    [order |-> Without(f.order, route),
     overtaken |-> (f.overtaken \cup StartedBefore(f.order, route)) \ {route}]

\* The write of a route replaces data of a fetch that started later than its own
WentBack(cache, f, route) == StationsKey \in DOMAIN cache /\ route \in f.overtaken

\* stationInfoMap[stationData.id]
StationInfo(allStations, id) ==
    IF \E s \in allStations : s.id = id
    THEN {CHOOSE s \in allStations : s.id = id}
    ELSE {}

\* stationInfo.field without the || fallback
FieldOr_NoFallback(info, field, fallback) ==
    IF info # {} /\ field \in DOMAIN (CHOOSE s \in info : TRUE)
    THEN (CHOOSE s \in info : TRUE)[field]
    ELSE << >>

\* stationInfo?.field || fallback
FieldOr(info, field, fallback) ==
    IF info # {} /\ field \in DOMAIN (CHOOSE s \in info : TRUE)
       /\ (CHOOSE s \in info : TRUE)[field] # << >>
    THEN (CHOOSE s \in info : TRUE)[field]
    ELSE fallback

DefaultName(id) == <<"Station ", id>>
DefaultAddress == << >>
DefaultCoordinates == <<0, 0>>
NoHours == << >>

\* isOpen: stationInfo?.hours ? locationManager.isOpen(stationData.id) : true
MergedIsOpen(info, id) == IF FieldOr(info, "hours", NoHours) # NoHours THEN isOpen(id) ELSE TRUE

\* One merged station (GET /api/stations)
MergeStation(stationData, info) ==
    [id |-> stationData.id,
     name |-> FieldOr(info, "name", DefaultName(stationData.id)),
     address |-> FieldOr(info, "address", DefaultAddress),
     coordinates |-> FieldOr(info, "coordinates", DefaultCoordinates),
     hours |-> FieldOr(info, "hours", NoHours),
     isOpen |-> MergedIsOpen(info, stationData.id),
     available |-> stationData.available,
     occupied |-> stationData.occupied,
     error |-> stationData.error]

\* One merged station (station poll callback)
PollMergeStation(stationData, info) ==
    [id |-> stationData.id,
     name |-> FieldOr(info, "name", DefaultName(stationData.id)),
     address |-> FieldOr(info, "address", DefaultAddress),
     coordinates |-> FieldOr(info, "coordinates", DefaultCoordinates),
     hours |-> FieldOr(info, "hours", NoHours),
     isOpen |-> MergedIsOpen(info, stationData.id),
     available |-> stationData.available,
     occupied |-> stationData.occupied,
     error |-> stationData.error]

----------------------------------------------------------------------------
(* GET /api/stations *)

IdleStations ==
    [pc |-> "idle", allStations |-> {}, wrote |-> FALSE, response |-> NoResponse,
     changed |-> FALSE]

\* The request up to its first await: cache lookup, then locationManager.getAll()
StationsRequest ==
    /\ proc = "running"
    /\ stReq.pc \in {"idle", "done"}
    /\ LET cachedData == getCachedData(apiCache, StationsKey, now) IN
       /\ lastRead' = ReadRecord(apiCache, StationsKey, now)
       /\ apiCache' = CacheAfterGet(apiCache, StationsKey, now)
       /\ IF CacheHit(cachedData)
          THEN stReq' = [IdleStations EXCEPT !.pc = "done",
                                             !.response = Response(200, cachedData.data)]
          ELSE stReq' = [IdleStations EXCEPT
                           !.pc = "awaitGetAll",
                           !.changed = CacheAfterGet(apiCache, StationsKey, now) # apiCache]
    /\ UNCHANGED <<now, battReq, adminReq, registry, lastMerge>>
    /\ UNCHANGED lifeVars
    /\ UNCHANGED <<nodeEnv, fetches>>
    /\ UNCHANGED clientVars

\* await locationManager.getAll() settles; supplierApi.fetchMultipleStations is called
StationsGetAllReturn ==
    /\ proc = "running"
    /\ stReq.pc = "awaitGetAll"
    /\ \E ok \in BOOLEAN :
         stReq' = [stReq EXCEPT !.pc = "awaitSupplier", !.allStations = getAll(registry, ok)]
    /\ fetches' = StartFetch(fetches, "GET /api/stations")
    /\ lastRead' = NoRead
    /\ UNCHANGED <<now, apiCache, battReq, adminReq, registry, lastMerge>>
    /\ UNCHANGED lifeVars
    /\ UNCHANGED nodeEnv
    /\ UNCHANGED clientVars

\* await supplierApi.fetchMultipleStations(stationIds) settles: data, or throws
StationsSupplierReturn ==
    /\ proc = "running"
    /\ stReq.pc = "awaitSupplier"
    /\ \/ \E up \in BOOLEAN :
            LET stationsData == {SupplierStation(s.id, up) : s \in stReq.allStations}
                stations == {MergeStation(d, StationInfo(stReq.allStations, d.id)) :
                                d \in stationsData}
            IN /\ apiCache' = CacheSet(apiCache, StationsKey, stations, now)
               /\ lastMerge' = [route |-> "GET /api/stations", data |-> stationsData,
                                 info |-> stReq.allStations, stations |-> stations,
                                 wentBack |-> WentBack(apiCache, fetches, "GET /api/stations")]
               /\ fetches' = WriteFetch(fetches, "GET /api/stations")
               /\ stReq' = [stReq EXCEPT
                             !.pc = "done", !.wrote = TRUE,
                             !.changed = stReq.changed
                                 \/ CacheSet(apiCache, StationsKey, stations, now) # apiCache,
                             !.response = Response(200, stations)]
       \/ /\ stReq' = [stReq EXCEPT !.pc = "done",
                                    !.response = Response(500, "Failed to fetch station data")]
          /\ fetches' = EndFetch(fetches, "GET /api/stations")
          /\ UNCHANGED <<apiCache, lastMerge>>
    /\ lastRead' = NoRead
    /\ UNCHANGED <<now, battReq, adminReq, registry>>
    /\ UNCHANGED lifeVars
    /\ UNCHANGED nodeEnv
    /\ UNCHANGED clientVars

NoMerge == [route |-> "none", data |-> {}, info |-> {}, stations |-> {},
            wentBack |-> FALSE]

----------------------------------------------------------------------------
(* POST /api/admin/stations, PUT and DELETE /api/admin/stations/:id *)

AdminOps == {"POST", "PUT", "DELETE"}

IdleAdmin ==
    [pc |-> "idle", op |-> "POST", id |-> "S1", name |-> << >>, lookup |-> "none",
     response |-> NoResponse, error |-> NoMessage,
     lookupOk |-> TRUE,     \* the stations API answered the existence lookup
     existed |-> FALSE]     \* the id was in the registry when it was looked up

\* Validation of the POST body before the lookup
PostValidation(id, name) ==
    IF name = << >>
    THEN Response(400, "Missing required fields: id, name, coordinates")
    ELSE NoResponse

\* The answer of PUT and DELETE when getById returned null
StationNotFound == Response(404, "Station not found")

\* The request up to its first await: validation, then locationManager.getById(id)
AdminRequest(op, id, name) ==
    /\ proc = "running"
    /\ adminReq.pc \in {"idle", "done"}
    /\ LET req == [IdleAdmin EXCEPT !.op = op, !.id = id, !.name = name] IN
       IF op = "POST" /\ PostValidation(id, name) # NoResponse
       THEN adminReq' = [req EXCEPT !.pc = "done", !.response = PostValidation(id, name)]
       ELSE adminReq' = [req EXCEPT !.pc = "awaitLookup"]
    /\ lastRead' = NoRead
    /\ UNCHANGED <<now, apiCache, battReq, stReq, registry, lastMerge>>
    /\ UNCHANGED lifeVars
    /\ UNCHANGED <<nodeEnv, fetches>>
    /\ UNCHANGED clientVars

\* await locationManager.getById(id) settles
AdminLookupReturn ==
    /\ proc = "running"
    /\ adminReq.pc = "awaitLookup"
    /\ \E ok \in BOOLEAN :
         LET existingStation == getById(registry, adminReq.id, ok)
             req == [adminReq EXCEPT
                       !.lookup = IF existingStation.isNull THEN "null" ELSE "found",
                       !.lookupOk = ok,
                       !.existed = adminReq.id \in DOMAIN registry]
         IN
         IF adminReq.op = "POST"
         THEN IF ~existingStation.isNull
              THEN adminReq' = [req EXCEPT !.pc = "done",
                        !.response = Response(409, "Station with this ID already exists")]
              ELSE adminReq' = [req EXCEPT !.pc = "awaitMutate"]
         ELSE IF existingStation.isNull
              THEN adminReq' = [req EXCEPT !.pc = "done", !.response = StationNotFound]
              ELSE adminReq' = [req EXCEPT !.pc = "awaitMutate"]
    /\ lastRead' = NoRead
    /\ UNCHANGED <<now, apiCache, battReq, stReq, registry, lastMerge>>
    /\ UNCHANGED lifeVars
    /\ UNCHANGED <<nodeEnv, fetches>>
    /\ UNCHANGED clientVars

\* The registry after locationManager.add / update / remove succeeded
Mutated(reg, op, id, name) ==
    IF op = "DELETE" THEN [k \in DOMAIN reg \ {id} |-> reg[k]]
    ELSE [k \in DOMAIN reg \cup {id} |->
            IF k = id /\ name # << >> THEN name ELSE reg[k]]

\* The fixed text of the catch block of an admin route
AdminFallback(op) ==
    IF op = "POST" THEN "Failed to add station"
    ELSE IF op = "PUT" THEN "Failed to update station"
    ELSE "Failed to delete station"

\* The messages of the errors locationManager.add / update / remove throw:
\* error.message of the stations API, the HTTP status text, or the fixed text
MutateErrors(op) == {VendorError, "HTTP error! Status: 500", AdminFallback(op)}

\* The answer of the catch block of an admin route:
\* res.status(500).json({ error: error.message || 'Failed to ... station' })
AdminFailed(op, message) == Response(500, ErrorOr(message, AdminFallback(op)))

\* await locationManager.add / update / remove settles: done, or throws
AdminMutateReturn ==
    /\ proc = "running"
    /\ adminReq.pc = "awaitMutate"
    /\ \/ /\ adminReq.op = "DELETE" \/ adminReq.name # << >> \/ adminReq.id \in DOMAIN registry
          /\ registry' = Mutated(registry, adminReq.op, adminReq.id, adminReq.name)
          /\ adminReq' = [adminReq EXCEPT !.pc = "done",
                            !.response = IF adminReq.op = "POST"
                                         THEN Response(201, "Station added successfully")
                                         ELSE IF adminReq.op = "PUT"
                                         THEN Response(200, "Station updated successfully")
                                         ELSE Response(200, "Station deleted successfully")]
       \/ /\ \E message \in MutateErrors(adminReq.op) :
               adminReq' = [adminReq EXCEPT !.pc = "done", !.error = message,
                              !.response = AdminFailed(adminReq.op, message)]
          /\ UNCHANGED registry
    /\ lastRead' = NoRead
    /\ UNCHANGED <<now, apiCache, battReq, stReq, lastMerge>>
    /\ UNCHANGED lifeVars
    /\ UNCHANGED <<nodeEnv, fetches>>
    /\ UNCHANGED clientVars

----------------------------------------------------------------------------
(* The clock *)

\* Date.now() moves on between two events
AdvanceTime ==
    /\ proc = "running"
    /\ now + TimeStep <= MaxNow
    /\ now' = now + TimeStep
    /\ lastRead' = NoRead
    /\ UNCHANGED <<apiCache, battReq, stReq, adminReq, registry, lastMerge>>
    /\ UNCHANGED lifeVars
    /\ UNCHANGED <<nodeEnv, fetches>>
    /\ UNCHANGED clientVars

----------------------------------------------------------------------------
(* Startup sequence, background polling and shutdown *)

Loops == {"station", "battery", "keepalive"}
IdleLoop ==
    [armed |-> FALSE, due |-> 0, ids |-> {}, pc |-> "idle", data |-> {}, lastFailed |-> FALSE]

Interval(l) ==
    IF l = "station" THEN STATION_POLL_INTERVAL
    ELSE IF l = "battery" THEN BATTERY_POLL_INTERVAL
    ELSE KEEPALIVE_INTERVAL

\* setInterval(poll, interval): the loop a supplierApi poll function starts
StartLoop(ids, interval, t) ==
    [armed |-> TRUE, due |-> t + interval, ids |-> ids, pc |-> "idle", data |-> {},
     lastFailed |-> FALSE]

\* The .then of checkApiHealth() starting the polling whatever the result
OnHealth_AlwaysStart(isHealthy) == "start"

\* The .then of checkApiHealth(): "start" calls startBackgroundPolling now,
\* "retry" schedules it with setTimeout
OnHealth(isHealthy) == IF isHealthy THEN "start" ELSE "retry"

\* supplierApi.checkApiHealth() resolves
HealthCheckResolves ==
    /\ proc = "running"
    /\ phase = "healthPending"
    /\ \E isHealthy \in BOOLEAN :
         /\ health' = [result |-> IF isHealthy THEN "healthy" ELSE "unhealthy", at |-> now]
         /\ IF OnHealth(isHealthy) = "start"
            THEN /\ phase' = "settingUp"
                 /\ startedAt' = now
                 /\ UNCHANGED retryDue
            ELSE /\ phase' = "retryDelay"
                 /\ retryDue' = now + RETRY_DELAY
                 /\ UNCHANGED startedAt
    /\ lastRead' = NoRead
    /\ UNCHANGED <<now, apiCache, registry, lastMerge, proc, healthChecks, stationPollingStop,
                   batteryPollingStop, energoTokenKeepAliveStop, loops,
                   stopsInvoked, statsSaved, exitPhase>>
    /\ UNCHANGED httpVars
    /\ UNCHANGED <<nodeEnv, fetches>>
    /\ UNCHANGED clientVars

\* setTimeout(startBackgroundPolling, 30000) fires
RetryTimerFires ==
    /\ proc = "running"
    /\ phase = "retryDelay"
    /\ now >= retryDue
    /\ phase' = "settingUp"
    /\ startedAt' = now
    /\ lastRead' = NoRead
    /\ UNCHANGED <<now, apiCache, registry, lastMerge, proc, health, healthChecks, retryDue,
                   stationPollingStop, batteryPollingStop, energoTokenKeepAliveStop, loops,
                   stopsInvoked, statsSaved, exitPhase>>
    /\ UNCHANGED httpVars
    /\ UNCHANGED <<nodeEnv, fetches>>
    /\ UNCHANGED clientVars

\* startBackgroundPolling after its await locationManager.getAll(): both loops start
StartPollingResumes ==
    /\ proc = "running"
    /\ phase = "settingUp"
    /\ \E ok \in BOOLEAN :
         LET stationIds == {s.id : s \in getAll(registry, ok)} IN
         loops' = [loops EXCEPT
                     !["station"] = StartLoop(stationIds, STATION_POLL_INTERVAL, now),
                     !["battery"] = StartLoop({}, BATTERY_POLL_INTERVAL, now)]
    /\ stationPollingStop' = TRUE
    /\ batteryPollingStop' = TRUE
    /\ phase' = "polling"
    /\ lastRead' = NoRead
    /\ UNCHANGED <<now, apiCache, registry, lastMerge, proc, health, startedAt, healthChecks, retryDue,
                   energoTokenKeepAliveStop, stopsInvoked, statsSaved, exitPhase>>
    /\ UNCHANGED httpVars
    /\ UNCHANGED <<nodeEnv, fetches>>
    /\ UNCHANGED clientVars

\* An interval timer fires: the loop's supplier request starts
TickFires(l) ==
    /\ proc = "running"
    /\ loops[l].armed
    /\ loops[l].pc = "idle"
    /\ now >= loops[l].due
    /\ loops' = [loops EXCEPT ![l].due = now + Interval(l), ![l].pc = "fetching"]
    /\ fetches' = IF l = "station" THEN StartFetch(fetches, "station poll") ELSE fetches
    /\ lastRead' = NoRead
    /\ UNCHANGED <<now, apiCache, registry, lastMerge, proc, phase, health, startedAt, healthChecks,
                   retryDue, stationPollingStop, batteryPollingStop,
                   energoTokenKeepAliveStop, stopsInvoked, statsSaved, exitPhase>>
    /\ UNCHANGED httpVars
    /\ UNCHANGED nodeEnv
    /\ UNCHANGED clientVars

\* The error branch rethrowing instead of logging
StationCallbackOnError_Rethrows == "threw"

\* Station poll callback, error branch: console.error and return
StationCallbackOnError == "logged"

\* Battery orders callback: console.error, console.log, or nothing
BatteryCallback(error, success) == "logged"

\* The state a loop is left in when the callback of a tick ended with `outcome`
AfterCallback(loop, outcome, failed) ==
    IF outcome = "threw"
    THEN [loop EXCEPT !.armed = FALSE, !.pc = "idle", !.data = {}, !.lastFailed = failed]
    ELSE [loop EXCEPT !.pc = "idle", !.data = {}, !.lastFailed = failed]

ProcAfterCallback(outcome) == IF outcome = "threw" THEN "crashed" ELSE "running"

\* The station fetch settles and the callback runs up to its await
StationFetchReturns ==
    /\ proc = "running"
    /\ loops["station"].pc = "fetching"
    /\ \/ \* callback(error, null)
          /\ loops' = [loops EXCEPT
                         !["station"] =
                             AfterCallback(loops["station"], StationCallbackOnError, TRUE)]
          /\ proc' = ProcAfterCallback(StationCallbackOnError)
          /\ fetches' = EndFetch(fetches, "station poll")
       \/ \* callback(null, data): await locationManager.getAll()
          \E up \in BOOLEAN :
            LET data == {SupplierStation(id, up) : id \in loops["station"].ids} IN
            /\ loops' = [loops EXCEPT !["station"].pc = "callback",
                                      !["station"].data = data]
            /\ UNCHANGED <<proc, fetches>>
    /\ lastRead' = NoRead
    /\ UNCHANGED <<now, apiCache, registry, lastMerge, phase, health, startedAt, healthChecks, retryDue,
                   stationPollingStop, batteryPollingStop, energoTokenKeepAliveStop,
                   stopsInvoked, statsSaved, exitPhase>>
    /\ UNCHANGED httpVars
    /\ UNCHANGED nodeEnv
    /\ UNCHANGED clientVars

\* The callback resumes after locationManager.getAll(): merge and refresh the cache
StationCallbackResumes ==
    /\ proc = "running"
    /\ loops["station"].pc = "callback"
    /\ \E ok \in BOOLEAN :
         LET allStations == getAll(registry, ok)
             stations == {PollMergeStation(d, StationInfo(allStations, d.id)) :
                             d \in loops["station"].data}
         IN /\ apiCache' = CacheSet(apiCache, StationsKey, stations, now)
            /\ lastMerge' = [route |-> "station poll", data |-> loops["station"].data,
                              info |-> allStations, stations |-> stations,
                              wentBack |-> WentBack(apiCache, fetches, "station poll")]
            /\ fetches' = WriteFetch(fetches, "station poll")
            /\ loops' = [loops EXCEPT
                           !["station"] = AfterCallback(loops["station"], "cached", ~ok)]
    /\ lastRead' = NoRead
    /\ UNCHANGED <<now, registry, proc, phase, health, startedAt, healthChecks, retryDue,
                   stationPollingStop, batteryPollingStop, energoTokenKeepAliveStop,
                   stopsInvoked, statsSaved, exitPhase>>
    /\ UNCHANGED httpVars
    /\ UNCHANGED nodeEnv
    /\ UNCHANGED clientVars

\* The battery orders fetch settles and the callback runs
BatteryFetchReturns ==
    /\ proc = "running"
    /\ loops["battery"].pc = "fetching"
    /\ \E error \in BOOLEAN, success \in BOOLEAN :
         /\ loops' = [loops EXCEPT
                        !["battery"] = AfterCallback(loops["battery"],
                                                     BatteryCallback(error, success), error)]
         /\ proc' = ProcAfterCallback(BatteryCallback(error, success))
    /\ lastRead' = NoRead
    /\ UNCHANGED <<now, apiCache, registry, lastMerge, phase, health, startedAt, healthChecks, retryDue,
                   stationPollingStop, batteryPollingStop, energoTokenKeepAliveStop,
                   stopsInvoked, statsSaved, exitPhase>>
    /\ UNCHANGED httpVars
    /\ UNCHANGED <<nodeEnv, fetches>>
    /\ UNCHANGED clientVars

\* The keep-alive request settles
KeepAliveReturns ==
    /\ proc = "running"
    /\ loops["keepalive"].pc = "fetching"
    /\ loops' = [loops EXCEPT !["keepalive"].pc = "idle"]
    /\ lastRead' = NoRead
    /\ UNCHANGED <<now, apiCache, registry, lastMerge, proc, phase, health, startedAt, healthChecks,
                   retryDue, stationPollingStop, batteryPollingStop,
                   energoTokenKeepAliveStop, stopsInvoked, statsSaved, exitPhase>>
    /\ UNCHANGED httpVars
    /\ UNCHANGED <<nodeEnv, fetches>>
    /\ UNCHANGED clientVars

\* The stop functions a shutdown handler invokes
StopsOnSignal(stationStop, batteryStop, keepAliveStop) ==
    (IF stationStop THEN {"station"} ELSE {}) \cup (IF batteryStop THEN {"battery"} ELSE {})

\* The handler calling the stop functions without the null guards: a TypeError
\* before saveStats when one of them is still null
SavesOnSignal_Unguarded(stationStop, batteryStop) == stationStop /\ batteryStop

\* Whether the handler reaches qrStats.saveStats()
SavesOnSignal(stationStop, batteryStop) == TRUE

\* process.on('SIGTERM' / 'SIGINT'): stop the loops, save the stats, exit
Signal(sig) ==
    /\ proc = "running"
    /\ LET stops == StopsOnSignal(stationPollingStop, batteryPollingStop,
                                  energoTokenKeepAliveStop)
       IN /\ stopsInvoked' = stops
          /\ loops' = [l \in Loops |->
                         IF l \in stops THEN [loops[l] EXCEPT !.armed = FALSE] ELSE loops[l]]
    /\ statsSaved' = SavesOnSignal(stationPollingStop, batteryPollingStop)
    /\ proc' = "exited"
    /\ exitPhase' = phase
    /\ lastRead' = NoRead
    /\ UNCHANGED <<now, apiCache, registry, lastMerge, phase, health, startedAt, healthChecks, retryDue,
                   stationPollingStop, batteryPollingStop, energoTokenKeepAliveStop>>
    /\ UNCHANGED httpVars
    /\ UNCHANGED <<nodeEnv, fetches>>
    /\ UNCHANGED clientVars

\* Date.now() moves on between two timer events
AdvancePollTime ==
    /\ proc = "running"
    /\ now + PollStep <= MaxPollNow
    /\ now' = now + PollStep
    /\ lastRead' = NoRead
    /\ UNCHANGED <<apiCache, registry, lastMerge>>
    /\ UNCHANGED <<proc, phase, health, startedAt, healthChecks, retryDue,
                   stationPollingStop, batteryPollingStop, energoTokenKeepAliveStop, loops,
                   stopsInvoked, statsSaved, exitPhase>>
    /\ UNCHANGED httpVars
    /\ UNCHANGED <<nodeEnv, fetches>>
    /\ UNCHANGED clientVars

\* Another client of the external stations API removes or restores a station
ExternalRegistryChange ==
    /\ proc = "running"
    /\ \E id \in VolatileStations :
         registry' = IF id \in DOMAIN registry
                     THEN [k \in DOMAIN registry \ {id} |-> registry[k]]
                     ELSE [k \in DOMAIN registry \cup {id} |->
                             IF k = id THEN (IF id = "S1" THEN Titled ELSE Untitled)
                             ELSE registry[k]]
    /\ lastRead' = NoRead
    /\ UNCHANGED <<now, apiCache, lastMerge>>
    /\ UNCHANGED lifeVars
    /\ UNCHANGED httpVars
    /\ UNCHANGED <<nodeEnv, fetches>>
    /\ UNCHANGED clientVars

----------------------------------------------------------------------------
(* GET /:batteryId: the battery page, with analytics tracking *)

otherServerVars == <<now, apiCache, battReq, stReq, adminReq, registry, lastMerge, proc,
                     phase, health, startedAt, healthChecks, retryDue, stationPollingStop,
                     batteryPollingStop, energoTokenKeepAliveStop, loops, stopsInvoked,
                     statsSaved, exitPhase, nodeEnv, fetches>>

\* const skipRoutes = [...]
skipRoutes == {<<"stats">>, <<"admin">>, <<"map">>, <<"key">>, <<"favicon", ".", "ico">>,
               <<"robots", ".", "txt">>, <<"sitemap", ".", "xml">>}

\* batteryId.includes('.')
IncludesDot(batteryId) == \E i \in DOMAIN batteryId : batteryId[i] = "."

\* The first path segments a browser can ask for
PathSegments == RequestIds \cup skipRoutes \cup {<<"app", ".", "js">>, <<"A", ".", "1">>}

NoPageRequest == [segment |-> << >>, handedTo |-> "none"]

\* Whom the handler hands the request to: next() or trackAnalytics(req, res, ...)
PageHandler(batteryId) ==
    IF IncludesDot(batteryId) \/ batteryId \in skipRoutes THEN "next" ELSE "trackAnalytics"

\* app.get('/:batteryId', ...)
PageRequest(batteryId) ==
    /\ proc = "running"
    /\ pageReq' = [segment |-> batteryId, handedTo |-> PageHandler(batteryId)]
    /\ lastRead' = NoRead
    /\ UNCHANGED otherServerVars
    /\ UNCHANGED <<proxy, scan, battModal, dur, mapView>>

----------------------------------------------------------------------------
(* The proxy server: three routes that relay one request to the API *)

ProxyRoutes == {"GET /api/stations", "GET /api/battery/:sticker_id",
                "POST /api/battery/:sticker_id"}

\* The pieces an upstream body arrives in, and how many of them
Chunks == {"{", "}", "1"}
MaxChunks == 3

\* JSON.parse(data) returns for an object or a number and throws for everything else
Parseable(data) ==
    \/ data = <<"{", "}">>
    \/ (Len(data) > 0 /\ \A i \in DOMAIN data : data[i] = "1")

\* request.on('error', ...): the message of each route
FetchFailure(route) ==
    CASE route = "GET /api/stations" -> "Failed to fetch stations"
      [] route = "GET /api/battery/:sticker_id" -> "Failed to fetch battery data"
      [] route = "POST /api/battery/:sticker_id" -> "Failed to create scan record"

ParseFailed == Response(500, "Failed to parse API response")

IdleProxy == [pc |-> "idle", route |-> "none", data |-> << >>, errored |-> FALSE,
              ended |-> FALSE, written |-> 0, attempts |-> 0, response |-> NoResponse,
              threw |-> FALSE]

\* res.json(body) / res.status(s).json(body): the first call writes the response, a later
\* one throws ERR_HTTP_HEADERS_SENT before anything is written
ResJson(p, response) ==
    IF p.written = 0
    THEN [p EXCEPT !.written = 1, !.attempts = @ + 1, !.response = response]
    ELSE [p EXCEPT !.attempts = @ + 1, !.threw = TRUE]

\* apiResponse.on('end', ...): try { res.json(JSON.parse(data)) } catch { res.status(500).json(...) }
OnEnd(p) ==
    LET tried == IF Parseable(p.data) THEN ResJson(p, Response(200, p.data)) ELSE p
    IN  IF Parseable(p.data) /\ ~tried.threw THEN tried
        ELSE ResJson(tried, ParseFailed)

\* The browser calls one of the three routes; the handler sends the upstream request
ProxyRequest(route) ==
    /\ proxy.pc \in {"idle", "closed"}
    /\ proxy' = [IdleProxy EXCEPT !.pc = "sent", !.route = route]
    /\ UNCHANGED serverVars
    /\ UNCHANGED <<pageReq, scan, battModal, dur, mapView>>

\* https.request's callback: the status line and headers have arrived; let data = ''
ProxyResponse ==
    /\ proxy.pc = "sent"
    /\ proxy' = [proxy EXCEPT !.pc = "receiving"]
    /\ UNCHANGED serverVars
    /\ UNCHANGED <<pageReq, scan, battModal, dur, mapView>>

\* apiResponse 'data': data += chunk
ProxyData(chunk) ==
    /\ proxy.pc = "receiving"
    /\ ~proxy.ended /\ ~proxy.errored
    /\ Len(proxy.data) < MaxChunks
    /\ proxy' = [proxy EXCEPT !.data = Append(@, chunk)]
    /\ UNCHANGED serverVars
    /\ UNCHANGED <<pageReq, scan, battModal, dur, mapView>>

\* apiResponse 'end'.  It also follows a socket error in the middle of the body on the
\* Node versions that end an aborted response.  A throw out of the listener is an
\* uncaught exception: the process dies.
ProxyEnd ==
    /\ proxy.pc = "receiving"
    /\ ~proxy.ended
    /\ LET p == OnEnd([proxy EXCEPT !.ended = TRUE])
       IN  proxy' = [p EXCEPT !.pc = IF p.threw THEN "crashed" ELSE @]
    /\ UNCHANGED serverVars
    /\ UNCHANGED <<pageReq, scan, battModal, dur, mapView>>

\* request 'error': no connection, or the socket fails before it is closed
ProxyError ==
    /\ proxy.pc \in {"sent", "receiving"}
    /\ ~proxy.errored
    /\ LET p == ResJson([proxy EXCEPT !.errored = TRUE],
                        Response(500, FetchFailure(proxy.route)))
       IN  proxy' = [p EXCEPT !.pc = IF p.threw THEN "crashed"
                                     ELSE IF @ = "sent" THEN "closed" ELSE @]
    /\ UNCHANGED serverVars
    /\ UNCHANGED <<pageReq, scan, battModal, dur, mapView>>

\* The upstream socket is closed: no further event of this request
ProxyClose ==
    /\ proxy.pc = "receiving"
    /\ proxy.ended \/ proxy.errored
    /\ proxy' = [proxy EXCEPT !.pc = "closed"]
    /\ UNCHANGED serverVars
    /\ UNCHANGED <<pageReq, scan, battModal, dur, mapView>>

----------------------------------------------------------------------------
(* scan_service.js: durations as 'HH:MM:SS' strings and as seconds.
   A string is the sequence of its characters. *)

DigitChars == <<"0", "1", "2", "3", "4", "5", "6", "7", "8", "9">>
IsDigit(c) == \E d \in DOMAIN DigitChars : DigitChars[d] = c
DigitValue(c) == (CHOOSE d \in DOMAIN DigitChars : DigitChars[d] = c) - 1

\* durationString.split(':')
RECURSIVE split(_, _)
split(s, sep) ==
    IF \A i \in DOMAIN s : s[i] # sep THEN <<s>>
    ELSE LET k == CHOOSE i \in DOMAIN s : s[i] = sep /\ \A j \in 1..(i - 1) : s[j] # sep
         IN  <<SubSeq(s, 1, k - 1)>> \o split(SubSeq(s, k + 1, Len(s)), sep)

\* parseInt(s, 10): leading white space is skipped, then an optional sign, then the
\* longest run of digits; NaN (nan |-> TRUE) when no digit follows
parseInt(s) ==
    LET RECURSIVE TrimStart(_)
        TrimStart(u) == IF u # << >> /\ Head(u) = " " THEN TrimStart(Tail(u)) ELSE u
        RECURSIVE DigitPrefix(_)
        DigitPrefix(u) ==
            IF u = << >> \/ ~IsDigit(Head(u)) THEN << >> ELSE <<Head(u)>> \o DigitPrefix(Tail(u))
        RECURSIVE NumberOf(_)
        NumberOf(digits) ==
            IF digits = << >> THEN 0
            ELSE NumberOf(SubSeq(digits, 1, Len(digits) - 1)) * 10
                   + DigitValue(digits[Len(digits)])
        t == TrimStart(s)
        negative == t # << >> /\ Head(t) = "-"
        body == IF t # << >> /\ Head(t) \in {"-", "+"} THEN Tail(t) ELSE t
        digits == DigitPrefix(body)
    IN  IF digits = << >> THEN [nan |-> TRUE, value |-> 0]
        ELSE [nan |-> FALSE,
              value |-> IF negative THEN 0 - NumberOf(digits) ELSE NumberOf(digits)]

\* x || 0  for a number x: NaN and 0 are falsy
OrZero(x) == IF x.nan THEN 0 ELSE x.value

parseDurationToSeconds_Minutes(durationString) ==
    LET parts == split(durationString, ":")
    IN  IF Len(parts) # 3 THEN 0
        ELSE OrZero(parseInt(parts[1])) * 60 + OrZero(parseInt(parts[2])) * 60
               + OrZero(parseInt(parts[3]))

parseDurationToSeconds(durationString) ==
    LET parts == split(durationString, ":")
    IN  IF Len(parts) # 3 THEN 0
        ELSE OrZero(parseInt(parts[1])) * 3600 + OrZero(parseInt(parts[2])) * 60
               + OrZero(parseInt(parts[3]))

\* String(n) for an integer n
String(n) ==
    LET RECURSIVE ToDigits(_)
        ToDigits(k) ==
            IF k < 10 THEN <<DigitChars[k + 1]>>
            ELSE ToDigits(k \div 10) \o <<DigitChars[(k % 10) + 1]>>
    IN  IF n < 0 THEN <<"-">> \o ToDigits(0 - n) ELSE ToDigits(n)

\* s.padStart(targetLength, fill) for a one-character fill
padStart(s, targetLength, fill) ==
    IF Len(s) >= targetLength THEN s
    ELSE [i \in 1..(targetLength - Len(s)) |-> fill] \o s

\* a % b in JavaScript: the sign of the dividend
JsRemainder(a, b) == IF a >= 0 THEN a % b ELSE 0 - ((0 - a) % b)

formatSecondsToDuration(totalSeconds) ==
    LET hours == totalSeconds \div 3600
        minutes == JsRemainder(totalSeconds, 3600) \div 60
        seconds == JsRemainder(totalSeconds, 60)
    IN  padStart(String(hours), 2, "0") \o <<":">> \o padStart(String(minutes), 2, "0")
          \o <<":">> \o padStart(String(seconds), 2, "0")

\* Inputs: every number of seconds up to MaxSeconds and some around the hour, the day
\* and the first three-digit hour; every 'HH:MM:SS' over a few digits; malformed strings
MaxSeconds == 130
SecondsInputs ==
    0..MaxSeconds \cup {3599, 3600, 3661, 86399, 86400, 359999, 360000, 360001, 3599999}

WellFormed ==
    LET TwoDigits(tens, ones) == {<<t, o>> : t \in tens, o \in ones}
        HourFields == TwoDigits({"0", "9"}, {"0", "7", "9"})
        SixtyFields == TwoDigits({"0", "5"}, {"0", "8", "9"})
    IN  {h \o <<":">> \o m \o <<":">> \o sec : h \in HourFields, m, sec \in SixtyFields}

\* Strings with another number of parts, and strings of three parts that are not
\* two-digit fields below 60
Malformed == {<< >>, <<"5">>, <<"1", ":", "2">>, <<"0", "1", ":", "3", "0">>,
              <<"1", ":", "2", ":", "3", ":", "4">>, <<":">>, <<":", ":", ":">>,
              <<"a", "b", "c">>, <<":", ":">>, <<"1", ":", "2", ":", "3">>,
              <<"0", "0", ":", "7", "5", ":", "0", "0">>,
              <<"x", ":", "0", "1", ":", "0", "2">>,
              <<" ", "4", ":", "0", "0", ":", "1", "s">>}

NoConversion == [of |-> "none", seconds |-> 0, string |-> << >>, parsed |-> 0,
                 formatted |-> << >>]

\* formatSecondsToDuration(n), and the result parsed back
FormatSeconds(n) ==
    /\ dur' = [of |-> "seconds", seconds |-> n, string |-> << >>,
               formatted |-> formatSecondsToDuration(n),
               parsed |-> parseDurationToSeconds(formatSecondsToDuration(n))]
    /\ UNCHANGED serverVars
    /\ UNCHANGED <<pageReq, proxy, scan, battModal, mapView>>

\* parseDurationToSeconds(s), and the result formatted back
ParseDuration(s) ==
    /\ dur' = [of |-> "string", seconds |-> 0, string |-> s,
               parsed |-> parseDurationToSeconds(s),
               formatted |-> formatSecondsToDuration(parseDurationToSeconds(s))]
    /\ UNCHANGED serverVars
    /\ UNCHANGED <<pageReq, proxy, scan, battModal, mapView>>

----------------------------------------------------------------------------
(* scan_service.js: the duration timer and the battery modal *)

\* document: the elements the script looks up, present or not.  No script of the page
\* adds or removes them, so the document a page is loaded with stays as it is.

\* durationTimer: 0 is null, every other value an id setInterval returned.
\* timers: the interval timers that are running, each with its own totalSeconds.
NoTimers == [loaded |-> FALSE,
             document |-> [batteryModal |-> FALSE, batteryDuration |-> FALSE,
                           batteryPaid |-> FALSE],
             durationTimer |-> 0,
             timers |-> << >>, text |-> << >>, active |-> FALSE, ticks |-> 0,
             cleared |-> FALSE, threw |-> FALSE, lastCall |-> "none"]

\* The ticks of the interval timers that are followed on one page
MaxTicks == 2

\* setInterval returns an id no other timer has
FreshTimer(m) ==
    CHOOSE id \in 1..(Cardinality(DOMAIN m.timers) + 2) :
        /\ id \notin DOMAIN m.timers /\ id # m.durationTimer
        /\ \A other \in 1..(id - 1) : other \in DOMAIN m.timers \/ other = m.durationTimer

\* clearInterval(id): an id that is not running is ignored
clearInterval(m, id) ==
    [m EXCEPT !.timers = [t \in DOMAIN @ \ {id} |-> @[t]],
              !.cleared = @ \/ id \in DOMAIN m.timers]

\* setInterval(() => { totalSeconds++; ... }, 1000)
setInterval(m, id, totalSeconds) ==
    [m EXCEPT !.timers = [t \in DOMAIN @ \cup {id} |-> IF t = id THEN totalSeconds ELSE @[t]]]

startDurationTimer_NoClear(m, initialDuration) ==
    IF ~m.document.batteryDuration THEN m
    ELSE LET totalSeconds == parseDurationToSeconds(initialDuration)
             id == FreshTimer(m)
         IN  [setInterval(m, id, totalSeconds)
                EXCEPT !.text = formatSecondsToDuration(totalSeconds), !.durationTimer = id]

startDurationTimer(m, initialDuration) ==
    LET m1 == IF m.durationTimer # 0 THEN clearInterval(m, m.durationTimer) ELSE m
    IN  IF ~m1.document.batteryDuration THEN m1
        ELSE LET totalSeconds == parseDurationToSeconds(initialDuration)
                 id == FreshTimer(m1)
             IN  [setInterval(m1, id, totalSeconds)
                    EXCEPT !.text = formatSecondsToDuration(totalSeconds), !.durationTimer = id]

stopDurationTimer(m) ==
    IF m.durationTimer # 0
    THEN [clearInterval(m, m.durationTimer) EXCEPT !.durationTimer = 0]
    ELSE m

\* What the API says about a battery; an absent or empty field is << >>
NoBattery == [isNull |-> TRUE, manufacture_id |-> << >>, duration |-> << >>]
Batteries == {[isNull |-> FALSE, manufacture_id |-> mid, duration |-> d] :
                 mid \in {<< >>, <<"M", "1">>},
                 d \in {<< >>, <<"0", "0", ":", "0", "0", ":", "5", "9">>, <<"5">>}}

\* showBatteryModal: paidElement.textContent throws a TypeError when #batteryPaid is
\* missing, after the timer has been started and before the modal is made active
showBatteryModal(m, batteryData) ==
    IF ~batteryData.isNull /\ m.document.batteryModal
    THEN LET initialDuration ==    \* batteryData.duration || '00:00:00'
                 IF batteryData.duration = << >>
                 THEN <<"0", "0", ":", "0", "0", ":", "0", "0">>
                 ELSE batteryData.duration
             m1 == startDurationTimer(m, initialDuration)
         IN  IF m1.document.batteryPaid THEN [m1 EXCEPT !.active = TRUE]
             ELSE [m1 EXCEPT !.threw = TRUE]
    ELSE m

hideBatteryModal(m) ==
    IF m.document.batteryModal THEN stopDurationTimer([m EXCEPT !.active = FALSE]) ELSE m

\* The page calls one of the four functions
Called(m, name) == [m EXCEPT !.lastCall = name, !.threw = FALSE]

ShowBatteryModal(batteryData) ==
    /\ battModal.loaded
    /\ battModal' = showBatteryModal(Called(battModal, "showBatteryModal"), batteryData)
    /\ UNCHANGED serverVars
    /\ UNCHANGED <<pageReq, proxy, scan, dur, mapView>>

StartDurationTimer(initialDuration) ==
    /\ battModal.loaded
    /\ battModal' = startDurationTimer(Called(battModal, "startDurationTimer"), initialDuration)
    /\ UNCHANGED serverVars
    /\ UNCHANGED <<pageReq, proxy, scan, dur, mapView>>

StopDurationTimer ==
    /\ battModal.loaded
    /\ battModal' = stopDurationTimer(Called(battModal, "stopDurationTimer"))
    /\ UNCHANGED serverVars
    /\ UNCHANGED <<pageReq, proxy, scan, dur, mapView>>

HideBatteryModal ==
    /\ battModal.loaded
    /\ battModal' = hideBatteryModal(Called(battModal, "hideBatteryModal"))
    /\ UNCHANGED serverVars
    /\ UNCHANGED <<pageReq, proxy, scan, dur, mapView>>

\* An interval timer fires: totalSeconds++ and the text is written again
TimerTick(id) ==
    /\ battModal.loaded
    /\ id \in DOMAIN battModal.timers
    /\ battModal.ticks < MaxTicks
    /\ battModal' = [battModal EXCEPT !.timers[id] = @ + 1,
                                      !.text = formatSecondsToDuration(battModal.timers[id] + 1),
                                      !.ticks = @ + 1]
    /\ UNCHANGED serverVars
    /\ UNCHANGED <<pageReq, proxy, scan, dur, mapView>>

----------------------------------------------------------------------------
(* scan_service.js: initScanService and its two requests *)

\* window.location.pathname
Paths == {<<"/">>, <<"/", "map">>, <<"/", "api">>, <<"/">> \o A1, <<"/">> \o ZZ,
          <<"/", "map", ".", "html">>}

Null == <<"null">>

\* getStickerIdFromPath: path.replace(/^\//, ''), and null for '', 'map' and 'api'
getStickerIdFromPath_NoRoutes(path) ==
    LET stickerId == IF path # << >> /\ Head(path) = "/" THEN Tail(path) ELSE path
    IN  IF stickerId = << >> THEN Null ELSE stickerId

getStickerIdFromPath(path) ==
    LET stickerId == IF path # << >> /\ Head(path) = "/" THEN Tail(path) ELSE path
    IN  IF stickerId = << >> \/ stickerId = <<"map">> \/ stickerId = <<"api">>
        THEN Null ELSE stickerId

\* What GET /api/battery/<stickerId> can come back with: no answer or no JSON (the
\* fetch or response.json() throws), or a body {success, data}
FetchResults == {[kind |-> "threw", success |-> FALSE, data |-> NoBattery]}
                  \cup {[kind |-> "json", success |-> ok, data |-> d] :
                           ok \in BOOLEAN, d \in Batteries \cup {NoBattery}}

\* fetchBatteryData: result.data when result.success && result.data, else null
fetchBatteryData(result) ==
    IF result.kind = "json" /\ result.success /\ ~result.data.isNull THEN result.data
    ELSE NoBattery

IdleScan == [pc |-> "unloaded", path |-> << >>, stickerId |-> Null, fetched |-> "none",
             batteryData |-> NoBattery, created |-> 0, createdWith |-> << >>]

\* The page is loaded: a new document, and initScanService runs once
LoadPage(path, document) ==
    /\ battModal' = [NoTimers EXCEPT !.loaded = TRUE, !.document = document]
    /\ LET stickerId == getStickerIdFromPath(path)
       IN  scan' = [IdleScan EXCEPT !.path = path, !.stickerId = stickerId,
                                    !.pc = IF stickerId # Null THEN "fetching" ELSE "done"]
    /\ UNCHANGED serverVars
    /\ UNCHANGED <<pageReq, proxy, dur, mapView>>

\* fetchBatteryData(stickerId) resolves and the .then callback runs: the modal is
\* shown and, if that did not throw, the scan record is requested
ScanFetchReturns(result) ==
    /\ scan.pc = "fetching"
    /\ LET batteryData == fetchBatteryData(result)
           shown == IF batteryData.isNull THEN battModal
                    ELSE showBatteryModal(Called(battModal, "showBatteryModal"), batteryData)
           creates == ~batteryData.isNull /\ ~shown.threw /\ batteryData.manufacture_id # << >>
       IN  /\ battModal' = shown
           /\ scan' = [scan EXCEPT
                         !.fetched = IF batteryData.isNull THEN "null" ELSE "data",
                         !.batteryData = batteryData,
                         !.pc = IF creates THEN "creating" ELSE "done",
                         !.created = IF creates THEN @ + 1 ELSE @,
                         !.createdWith = IF creates
                                         THEN <<scan.stickerId, batteryData.manufacture_id>>
                                         ELSE @]
    /\ UNCHANGED serverVars
    /\ UNCHANGED <<pageReq, proxy, dur, mapView>>

\* POST /api/battery/<stickerId> comes back, or fails: createScanRecord returns
ScanCreateReturns ==
    /\ scan.pc = "creating"
    /\ scan' = [scan EXCEPT !.pc = "done"]
    /\ UNCHANGED serverVars
    /\ UNCHANGED <<pageReq, proxy, battModal, dur, mapView>>

----------------------------------------------------------------------------
(* map_view.js: the stations on the map, the selected one and the directions button *)

\* The stations the API can list; two of them carry the same id
MapStations ==
    LET MapStation(id, latitude, longitude) ==
            [isNull |-> FALSE, id |-> id, latitude |-> latitude, longitude |-> longitude]
    IN  {MapStation("S1", "41.88", "-87.63"), MapStation("S2", "41.90", "-87.65"),
         MapStation("S1", "41.95", "-87.70")}

\* null, for selectedStation and for selectedStationId
NoStation == [isNull |-> TRUE, id |-> "null", latitude |-> "", longitude |-> ""]
NoStationId == "null"

\* stationsToGeoJSON(stations, selectedId): the features of the collection
stationsToGeoJSON(stations, selectedId) ==
    {[id |-> station.id, latitude |-> station.latitude, longitude |-> station.longitude,
      selected |-> station.id = selectedId] : station \in stations}

\* The URL the directions button opens
DirectionsUrl(userAgent, station) ==
    <<CASE userAgent = "iPhone" -> "maps://maps.google.com/maps?daddr="
        [] userAgent = "android" -> "google.navigation:q="
        [] OTHER -> "https://maps.google.com/maps?daddr=",
      station.latitude, ",", station.longitude>>

\* let stations = []; let selectedStation = null; let selectedStationId = null;
\* the 'stations' source does not exist before addMarkersToMap; no page was opened
MapLoading == [fetched |-> "no", stations |-> {}, selectedStation |-> NoStation,
               selectedStationId |-> NoStationId, hasSource |-> FALSE, sourceData |-> {},
               active |-> FALSE, threw |-> FALSE, lastClick |-> "none", href |-> << >>,
               pushes |-> 0]

\* The pushes of source data that are counted
MaxPushes == 3

\* map.getSource('stations').setData(geojson): a TypeError while there is no source
setData(v, geojson) ==
    IF v.hasSource
    THEN [v EXCEPT !.sourceData = geojson, !.pushes = IF @ < MaxPushes THEN @ + 1 ELSE @]
    ELSE [v EXCEPT !.threw = TRUE]

\* selectStation(station); the modal is shown unless setData threw
selectStation(v, station) ==
    LET v1 == [v EXCEPT !.selectedStation = station, !.selectedStationId = station.id]
        v2 == setData(v1, stationsToGeoJSON(v1.stations, v1.selectedStationId))
    IN  IF v2.threw THEN v2 ELSE [v2 EXCEPT !.active = TRUE]

hideStationModal_KeepsId(v) ==
    LET v1 == [v EXCEPT !.active = FALSE, !.selectedStation = NoStation]
    IN  setData(v1, stationsToGeoJSON(v1.stations, NoStationId))

\* hideStationModal()
hideStationModal(v) ==
    LET v1 == [v EXCEPT !.active = FALSE, !.selectedStation = NoStation,
                        !.selectedStationId = NoStationId]
    IN  setData(v1, stationsToGeoJSON(v1.stations, NoStationId))

\* An event handler starts
Handling(v) == [v EXCEPT !.threw = FALSE, !.lastClick = "none", !.href = << >>]

\* fetchStations() gets its answer: stations = result.data; addMarkersToMap(stations)
FetchStationsReturns(ok, data) ==
    /\ mapView.fetched = "no"
    /\ mapView' =
          IF ok
          THEN [Handling(mapView) EXCEPT
                  !.fetched = "ok", !.stations = data, !.hasSource = TRUE,
                  !.sourceData = stationsToGeoJSON(data, mapView.selectedStationId)]
          ELSE [Handling(mapView) EXCEPT !.fetched = "failed"]
    /\ UNCHANGED serverVars
    /\ UNCHANGED <<pageReq, proxy, scan, battModal, dur>>

\* selectStation is called, as the click on a marker does for the station it finds
SelectStation(station) ==
    /\ mapView' = selectStation(Handling(mapView), station)
    /\ UNCHANGED serverVars
    /\ UNCHANGED <<pageReq, proxy, scan, battModal, dur>>

\* hideStationModal is called, as the click on the map outside every marker does
HideStationModal ==
    /\ mapView' = hideStationModal(Handling(mapView))
    /\ UNCHANGED serverVars
    /\ UNCHANGED <<pageReq, proxy, scan, battModal, dur>>

\* The click on the directions button
DirectionsClick(userAgent) ==
    /\ mapView' =
          IF ~mapView.selectedStation.isNull
          THEN [Handling(mapView) EXCEPT
                  !.lastClick = "navigated",
                  !.href = DirectionsUrl(userAgent, mapView.selectedStation)]
          ELSE [Handling(mapView) EXCEPT !.lastClick = "ignored"]
    /\ UNCHANGED serverVars
    /\ UNCHANGED <<pageReq, proxy, scan, battModal, dur>>

----------------------------------------------------------------------------
(* Construction: the state when the module has been loaded *)

InitEnv(env) ==
    /\ now = 0
    /\ apiCache = << >>
    /\ lastRead = NoRead
    /\ battReq = IdleBattery
    /\ stReq = IdleStations
    /\ adminReq = IdleAdmin
    /\ registry = [id \in StationIds |-> IF id = "S1" THEN Titled ELSE Untitled]
    /\ lastMerge = NoMerge
    /\ proc = "running"
    /\ phase = "healthPending"
    /\ health = [result |-> "pending", at |-> 0]
    /\ startedAt = -1
    /\ healthChecks = 1
    /\ retryDue = -1
    /\ stationPollingStop = FALSE
    /\ batteryPollingStop = FALSE
    /\ energoTokenKeepAliveStop = TRUE
    /\ loops = [l \in Loops |->
                  IF l = "keepalive" THEN StartLoop({}, KEEPALIVE_INTERVAL, 0) ELSE IdleLoop]
    /\ stopsInvoked = {}
    /\ statsSaved = FALSE
    /\ exitPhase = "none"
    /\ nodeEnv = env
    /\ fetches = NoFetches
    /\ pageReq = NoPageRequest
    /\ proxy = IdleProxy
    /\ scan = IdleScan
    /\ battModal = NoTimers
    /\ dur = NoConversion
    /\ mapView = MapLoading

\* NODE_ENV is whatever the deployment sets
Init == \E env \in NodeEnvs : InitEnv(env)

\* The polling side, the station routes and the cache never read NODE_ENV
InitProduction == InitEnv("production")

----------------------------------------------------------------------------
(* Specifications *)

\* GET /api/battery/:batteryId against the cache and the clock
NextBattery ==
    \/ \E batteryId \in RequestIds : BatteryRequest(batteryId)
    \/ BatterySupplierReturn
    \/ AdvanceTime

SpecBattery == Init /\ [][NextBattery]_vars

\* GET /api/stations against the cache, the clock and the station registry
NextStations ==
    \/ StationsRequest
    \/ StationsGetAllReturn
    \/ StationsSupplierReturn
    \/ ExternalRegistryChange
    \/ AdvanceTime

SpecStations == InitProduction /\ [][NextStations]_vars

\* The error answers of the battery route and of the station admin routes
NextErrors ==
    \/ \E batteryId \in RequestIds : BatteryRequest(batteryId)
    \/ BatterySupplierReturn
    \/ \E op \in AdminOps, id \in StationIds, name \in Titles : AdminRequest(op, id, name)
    \/ AdminLookupReturn
    \/ AdminMutateReturn

SpecErrors == Init /\ [][NextErrors]_vars

\* Startup, the three loops and the shutdown signals
NextPolling ==
    \/ HealthCheckResolves
    \/ RetryTimerFires
    \/ StartPollingResumes
    \/ \E l \in Loops : TickFires(l)
    \/ StationFetchReturns
    \/ StationCallbackResumes
    \/ BatteryFetchReturns
    \/ KeepAliveReturns
    \/ \E sig \in {"SIGTERM", "SIGINT"} : Signal(sig)
    \/ ExternalRegistryChange
    \/ AdvancePollTime

SpecPolling == InitProduction /\ [][NextPolling]_vars

\* Every user of the cache on the request side
NextCache == NextBattery \/ NextStations

SpecCache == InitProduction /\ [][NextCache]_vars

\* The two station merges: GET /api/stations and the station poll
NextMerge ==
    \/ StationsRequest
    \/ StationsGetAllReturn
    \/ StationsSupplierReturn
    \/ HealthCheckResolves
    \/ RetryTimerFires
    \/ StartPollingResumes
    \/ TickFires("station")
    \/ StationFetchReturns
    \/ StationCallbackResumes
    \/ ExternalRegistryChange
    \/ AdvancePollTime

SpecMerge == InitProduction /\ [][NextMerge]_vars

\* The station admin routes while other clients change the registry
NextAdmin ==
    \/ \E op \in AdminOps, id \in StationIds, name \in Titles : AdminRequest(op, id, name)
    \/ AdminLookupReturn
    \/ AdminMutateReturn
    \/ ExternalRegistryChange

SpecAdmin == InitProduction /\ [][NextAdmin]_vars

\* The battery page and the battery API it then calls
NextPage ==
    \/ NextBattery
    \/ \E batteryId \in PathSegments : PageRequest(batteryId)

SpecPage == Init /\ [][NextPage]_vars

\* The proxy server's three API routes and the events of their upstream request
NextProxy ==
    \/ \E route \in ProxyRoutes : ProxyRequest(route)
    \/ ProxyResponse
    \/ \E chunk \in Chunks : ProxyData(chunk)
    \/ ProxyEnd
    \/ ProxyError
    \/ ProxyClose

SpecProxy == InitProduction /\ [][NextProxy]_vars

\* The two duration conversions applied to numbers and to strings
NextDuration ==
    \/ \E n \in SecondsInputs : FormatSeconds(n)
    \/ \E s \in WellFormed \cup Malformed : ParseDuration(s)

SpecDuration == InitProduction /\ [][NextDuration]_vars

\* The scan service of one page after another: initialisation, modal and timer
NextScan ==
    \/ \E path \in Paths,
          document \in [batteryModal : BOOLEAN, batteryDuration : BOOLEAN, batteryPaid : BOOLEAN] :
             LoadPage(path, document)
    \/ \E result \in FetchResults : ScanFetchReturns(result)
    \/ ScanCreateReturns
    \/ \E batteryData \in Batteries \cup {NoBattery} : ShowBatteryModal(batteryData)
    \/ \E d \in {<<"0", "0", ":", "0", "1", ":", "0", "0">>, <<"5">>} : StartDurationTimer(d)
    \/ StopDurationTimer
    \/ HideBatteryModal
    \/ \E id \in DOMAIN battModal.timers : TimerTick(id)

SpecScan == InitProduction /\ [][NextScan]_vars

\* The map view: the station list arrives once, then selections and clicks
NextMapView ==
    \/ \E ok \in BOOLEAN, data \in SUBSET MapStations : FetchStationsReturns(ok, data)
    \/ \E station \in MapStations : SelectStation(station)
    \/ HideStationModal
    \/ \E userAgent \in {"iPhone", "android", "desktop"} : DirectionsClick(userAgent)

SpecMapView == InitProduction /\ [][NextMapView]_vars

\* The whole server
Next ==
    \/ NextCache \/ NextErrors \/ NextMerge \/ NextPolling \/ NextAdmin
    \/ NextPage \/ NextProxy \/ NextDuration \/ NextScan \/ NextMapView

Spec == Init /\ [][Next]_vars

----------------------------------------------------------------------------
(* Properties *)

\* C1: getCachedData(key) returns the stored data while now - timestamp < 10000 ms,
\* null once now - timestamp >= 10000 ms (the boundary included), and null for a
\* key that was never stored.
C1_CacheTtl ==
    lastRead.done =>
        /\ (lastRead.found /\ lastRead.at - lastRead.entry.timestamp < 10000)
              => (~lastRead.result.isNull /\ lastRead.result.data = lastRead.entry.data)
        /\ (lastRead.found /\ lastRead.at - lastRead.entry.timestamp >= 10000)
              => lastRead.result.isNull
        /\ ~lastRead.found => lastRead.result.isNull

\* C1 witness: a read exactly 10 s after the write returns null
C1_Witness ==
    /\ lastRead.done
    /\ lastRead.found
    /\ lastRead.at - lastRead.entry.timestamp = 10000
    /\ lastRead.result.isNull

\* C2 (as claimed): every batteryId that is not an entry of the static map is
\* answered 400, with no cache lookup and no supplier call.
C2_AbsentIdIs400 ==
    (battReq.pc # "idle" /\ battReq.id \notin DOMAIN batteryIdMap) =>
        /\ battReq.pc = "done"
        /\ battReq.response.status = 400
        /\ ~battReq.read
        /\ ~battReq.called

\* The ids of the static map whose real id is empty, blank, missing or no string
UnusableIds == {E0, E1, U0, N7}

\* C3: a batteryId that is in the map with an unusable real id fails before any
\* supplier call and writes nothing to the cache.
C3_UnusableFailsEarly ==
    /\ (battReq.pc # "idle" /\ battReq.id \in UnusableIds) =>
          /\ battReq.pc = "done"
          /\ battReq.response.status >= 400
          /\ ~battReq.called
          /\ ~battReq.wrote
    /\ \A k \in DOMAIN apiCache : k.ns = "battery_" => k.id = R1

\* C3 witness: a blank real id answered with an error
C3_Witness ==
    /\ battReq.pc = "done"
    /\ battReq.id = E1
    /\ battReq.response.status = 400
    /\ ~battReq.called

\* The ids of the static map with no real id behind them
UnconfiguredIds == {E0, E1, U0}

\* C4 (as claimed): an unconfigured battery id is answered 404, as are unknown
\* stations and unknown batteries; 400 is used only for validation errors.
C4_UnconfiguredIs404 ==
    /\ (battReq.pc = "done" /\ battReq.id \in UnconfiguredIds)
          => battReq.response.status = 404
    /\ (battReq.pc = "done" /\ battReq.supplier = "notfound")
          => battReq.response.status = 404
    /\ (adminReq.pc = "done" /\ adminReq.op \in {"PUT", "DELETE"} /\ adminReq.lookup = "null")
          => adminReq.response.status = 404
    /\ (battReq.pc = "done" /\ battReq.response.status = 400)
          => battReq.id \notin DOMAIN batteryIdMap
    /\ (adminReq.pc = "done" /\ adminReq.response.status = 400)
          => (adminReq.op = "POST" /\ adminReq.name = << >>)

\* C4 (amended): an unconfigured battery id (empty, blank or missing real id) is a
\* validation error answered 400; unknown stations (getById returned null on PUT
\* or DELETE) and unknown batteries (lookup with success = false) are answered
\* 404; 400 is used only for validation errors: an id absent from the map, an
\* unconfigured id, a POST body without a name.
C4_ErrorStatuses ==
    /\ (battReq.pc = "done" /\ battReq.id \in UnconfiguredIds)
          => battReq.response.status = 400
    /\ (battReq.pc = "done" /\ battReq.supplier = "notfound")
          => battReq.response.status = 404
    /\ (adminReq.pc = "done" /\ adminReq.op \in {"PUT", "DELETE"} /\ adminReq.lookup = "null")
          => adminReq.response.status = 404
    /\ (battReq.pc = "done" /\ battReq.response.status = 400)
          => (battReq.id \notin DOMAIN batteryIdMap \/ battReq.id \in UnconfiguredIds)
    /\ (adminReq.pc = "done" /\ adminReq.response.status = 400)
          => (adminReq.op = "POST" /\ adminReq.name = << >>)

\* C4 witness: a missing real id answered 400 while a DELETE of an unknown
\* station was answered 404
C4_Witness ==
    /\ battReq.pc = "done"
    /\ battReq.id = U0
    /\ battReq.response.status = 400
    /\ adminReq.pc = "done"
    /\ adminReq.op = "DELETE"
    /\ adminReq.lookup = "null"
    /\ adminReq.response.status = 404

\* C5: the real battery id passed to supplierApi.findBatteryById, and used in the
\* cache key, never equals the custom battery id of the URL.
C5_Indirection ==
    battReq.called =>
        /\ battReq.calledWith # Str(battReq.id)
        /\ battReq.key # BatteryKey(battReq.id)

\* C5 witness: a request for A1 reached the supplier
C5_Witness ==
    /\ battReq.called
    /\ battReq.id = A1
    /\ battReq.calledWith = Str(R1)

\* C6: a failed station-poll or battery-order-poll tick neither crashes the
\* process nor stops the loop: the timer stays armed and the next tick is due
\* within one interval.
C6_FailedTickKeepsLoop ==
    /\ proc # "crashed"
    /\ (proc = "running" /\ loops["station"].lastFailed)
          => (loops["station"].armed /\ loops["station"].due <= now + 30000)
    /\ (proc = "running" /\ loops["battery"].lastFailed)
          => (loops["battery"].armed /\ loops["battery"].due <= now + 60000)

\* C6 witness: the station loop has fired again after a failed tick, and the
\* battery loop is armed after a failed tick
C6_Witness ==
    /\ proc = "running"
    /\ loops["station"].lastFailed
    /\ loops["station"].pc = "fetching"
    /\ loops["battery"].lastFailed
    /\ loops["battery"].armed

\* What the merge must produce for supplier record d, given the metadata info
MergedAsSpecified(m, d, info) ==
    /\ m.id = d.id
    /\ (\A s \in info : s.id # d.id) =>
          /\ m.name = <<"Station ", d.id>>
          /\ m.address = << >>
          /\ m.coordinates = <<0, 0>>
          /\ m.isOpen = TRUE
    /\ \A s \in info : s.id = d.id =>
          /\ ("name" \in DOMAIN s /\ s.name # << >>) => m.name = s.name
          /\ ("address" \in DOMAIN s /\ s.address # << >>) => m.address = s.address
          /\ ("coordinates" \in DOMAIN s) => m.coordinates = s.coordinates
          /\ ("hours" \notin DOMAIN s) => m.isOpen = TRUE

\* C7: in both station merges, a supplier record whose id has no metadata is
\* merged with name 'Station <id>', address '', coordinates [0,0], isOpen true;
\* when metadata exists its name, address and coordinates are used, and isOpen
\* is derived from hours only when hours are present.
C7_MergeDefaults ==
    /\ Cardinality(lastMerge.stations) = Cardinality(lastMerge.data)
    /\ \A d \in lastMerge.data :
          \E m \in lastMerge.stations : MergedAsSpecified(m, d, lastMerge.info)

\* C7 witness: the station poll merged a station that has no metadata next to
\* one that has
C7_Witness ==
    /\ lastMerge.route = "station poll"
    /\ \E d \in lastMerge.data : \A s \in lastMerge.info : s.id # d.id
    /\ \E d \in lastMerge.data : \E s \in lastMerge.info : s.id = d.id /\ s.name # << >>

Started == phase \in {"settingUp", "polling"}

\* C8 (as claimed): one health check at startup; if healthy the loops start
\* immediately; if unhealthy the health check is retried once after 30 s and
\* the loops start only after that retry.
C8_HealthCheckRetried ==
    /\ healthChecks >= 1
    /\ health.result = "healthy" => (healthChecks = 1 /\ startedAt = health.at)
    /\ (health.result = "unhealthy" /\ Started)
          => (healthChecks = 2 /\ startedAt >= health.at + 30000)

\* C8 (amended): exactly one health check is performed and it is never
\* repeated; if healthy, startBackgroundPolling is called immediately; if
\* unhealthy, startBackgroundPolling is called once, 30 s later or more, with
\* no second health check; no polling loop starts before that call.
C8_StartupSequence ==
    /\ healthChecks = 1
    /\ health.result = "healthy" => (Started /\ startedAt = health.at)
    /\ (health.result = "unhealthy" /\ Started) => startedAt >= health.at + 30000
    /\ (health.result = "unhealthy" /\ ~Started) => (phase = "retryDelay" /\ startedAt = -1)
    /\ health.result = "pending" => (phase = "healthPending" /\ startedAt = -1)
    /\ (stationPollingStop \/ batteryPollingStop) => (Started /\ startedAt >= 0)

\* C8 witness: polling runs after an unhealthy check, with one health check made
C8_Witness ==
    /\ health.result = "unhealthy"
    /\ phase = "polling"
    /\ stationPollingStop
    /\ healthChecks = 1

\* C9 (as claimed): on SIGTERM or SIGINT the stop function of every started
\* loop, the token keep-alive included, is invoked before the process exits.
C9_AllLoopsStopped ==
    proc = "exited" =>
        /\ stationPollingStop => "station" \in stopsInvoked
        /\ batteryPollingStop => "battery" \in stopsInvoked
        /\ energoTokenKeepAliveStop => "keepalive" \in stopsInvoked

\* C10: in every lifecycle state, a SIGTERM or SIGINT saves the analytics
\* before the process exits.
C10_StatsSavedOnExit ==
    /\ proc = "exited" => statsSaved
    /\ proc = "running" => ~statsSaved

\* C10 witness: the signal arrived during the 30 s retry delay
C10_Witness ==
    /\ proc = "exited"
    /\ exitPhase = "retryDelay"
    /\ statsSaved

\* C11 (as claimed): a supplier fetch that is in flight when the shutdown
\* signal arrives is allowed to complete: once the handler has run, the fetch
\* of every loop that was fetching can still settle and reach its callback.
C11_InFlightFetchCompletes ==
    proc = "exited" =>
        /\ loops["station"].pc = "fetching" => ENABLED StationFetchReturns
        /\ loops["battery"].pc = "fetching" => ENABLED BatteryFetchReturns
        /\ loops["keepalive"].pc = "fetching" => ENABLED KeepAliveReturns

\* C12 (as claimed): every station-poll tick fetches the current set of all
\* station ids before it requests fresh data: the ids a tick asks the supplier
\* for are the ids the registry holds when the tick fires (or none, when the
\* registry cannot be read), so a station added or removed after polling
\* started is in, or absent from, what the tick writes to the cache.
C12_TickFetchesCurrentIds ==
    [][(loops["station"].pc = "idle" /\ loops'["station"].pc = "fetching")
          => loops'["station"].ids \in {DOMAIN registry, {}}]_vars

C14_LazyEviction ==
    [][lastRead'.done =>
         LET key == lastRead'.key IN
         /\ lastRead'.result.isNull
               => /\ key \notin DOMAIN apiCache'
                  /\ key \in DOMAIN apiCache => now - apiCache[key].timestamp >= CACHE_TTL
         /\ (key \in DOMAIN apiCache /\ now - apiCache[key].timestamp < CACHE_TTL)
               => /\ key \in DOMAIN apiCache'
                  /\ apiCache'[key] = apiCache[key]
                  /\ ~lastRead'.result.isNull
         /\ DOMAIN apiCache' \ {key} = DOMAIN apiCache \ {key}
         /\ \A k \in DOMAIN apiCache \ {key} : apiCache'[k] = apiCache[k]]_vars

\* C14 witness: a read has just evicted the stale entry of its key and returned
\* null, while the entry of another key is still cached
C14_Witness ==
    /\ lastRead.done
    /\ lastRead.found
    /\ lastRead.result.isNull
    /\ lastRead.key \notin DOMAIN apiCache
    /\ \E k \in DOMAIN apiCache : k # lastRead.key

\* The fixed messages the error answers of the API are written with
GenericMessages ==
    {"Battery not found", "Internal server error", "Station not found",
     "Station with this ID already exists",
     "Missing required fields: id, name, coordinates",
     "Invalid battery ID", "Battery ID not configured"}
        \cup {AdminFallback(op) : op \in AdminOps}

\* C15 (as claimed): in production, no error answer of the battery route or of
\* the station admin routes carries the error text of the upstream API: the
\* body is one of the fixed generic messages.
C15_NoVendorTextInProduction ==
    nodeEnv = "production" =>
        /\ (battReq.pc = "done" /\ battReq.response.status >= 400)
              => battReq.response.body \in GenericMessages
        /\ (adminReq.pc = "done" /\ adminReq.response.status >= 400)
              => adminReq.response.body \in GenericMessages

\* C16: an exception that reaches the global error handler is answered with
\* status 500, and with the body 'Internal server error' when NODE_ENV is
\* 'production' and the message of the exception in any other environment.
C16_GlobalErrorHandler ==
    (battReq.pc = "done" /\ battReq.thrown # NoMessage) =>
        /\ battReq.response.status = 500
        /\ nodeEnv = "production" => battReq.response.body = "Internal server error"
        /\ nodeEnv # "production" => battReq.response.body = battReq.thrown

\* C16 witness: in production, the validation middleware threw on an inherited
\* property of the map and the request was answered by the error handler
C16_Witness ==
    /\ nodeEnv = "production"
    /\ battReq.pc = "done"
    /\ battReq.id = <<"constructor">>
    /\ battReq.thrown = "realBatteryId.trim is not a function"
    /\ battReq.response = Response(500, "Internal server error")

\* C16 witness outside production: the answer carries the message
C16_WitnessDevelopment ==
    /\ nodeEnv = "development"
    /\ battReq.pc = "done"
    /\ battReq.thrown # NoMessage
    /\ battReq.response.body = battReq.thrown

\* The real ids of the static battery id map
RealIds == {batteryIdMap[c].str : c \in {d \in DOMAIN batteryIdMap :
                                            batteryIdMap[d].type = "string"}}

\* The keys the cache may hold
AllowedKeys == {StationsKey} \cup {BatteryKey(r) : r \in RealIds}

\* C17: in every reachable state the keys of apiCache are 'stations' and
\* 'battery_' + r for real ids r of the static battery id map, so the cache
\* never holds more entries than the map has real ids, plus one.
C17_KeySpaceBounded ==
    /\ DOMAIN apiCache \subseteq AllowedKeys
    /\ Cardinality(DOMAIN apiCache) <= Cardinality(RealIds) + 1

\* C17 witness: the station batch and a battery are cached together, the
\* battery having been asked for under both of its custom ids
C17_Witness ==
    /\ StationsKey \in DOMAIN apiCache
    /\ BatteryKey(R1) \in DOMAIN apiCache
    /\ battReq.pc = "done"
    /\ battReq.id = A2
    /\ battReq.wrote

\* The supplier records of a station fetch that are held in a state: the data
\* of the last merge and the data a poll callback has received and not yet merged
HeldRecords == lastMerge.data \cup loops["station"].data

C19_FreshEntryServed ==
    /\ (lastRead.done /\ lastRead.found
          /\ lastRead.at - lastRead.entry.timestamp < CACHE_TTL)
          => IF lastRead.key = StationsKey
             THEN /\ stReq.pc = "done"
                  /\ stReq.response = Response(200, lastRead.entry.data)
                  /\ ~stReq.wrote
             ELSE /\ battReq.pc = "done"
                  /\ battReq.response = Response(200, lastRead.entry.data)
                  /\ ~battReq.called
                  /\ ~battReq.wrote
    /\ (battReq.read /\ battReq.id \in {A1, A2}) => battReq.key = BatteryKey(R1)

\* C19 witness: the entry of the real id is cached and, later but less than
\* 10 s after it was written, a request under the custom id A2 is answered
\* from it without a supplier call
C19_Witness ==
    /\ lastRead.done
    /\ lastRead.key = BatteryKey(R1)
    /\ lastRead.found
    /\ lastRead.at > lastRead.entry.timestamp
    /\ battReq.id = A2
    /\ battReq.pc = "done"
    /\ ~battReq.called
    /\ battReq.response.status = 200

\* C20 (as claimed): under every interleaving of GET /api/stations handlers and
\* station-poll callbacks, a write to the 'stations' entry never replaces data
\* of a supplier fetch that started later with data of a fetch that started
\* earlier.
C20_SnapshotNeverGoesBack == ~lastMerge.wentBack

\* C21 (as claimed): PUT and DELETE /api/admin/stations/:id answer 404
\* 'Station not found' only when the station does not exist; when the
\* existence lookup fails upstream the answer is a 5xx error, not 404.
C21_NotFoundOnlyWhenAbsent ==
    (adminReq.pc = "done" /\ adminReq.op \in {"PUT", "DELETE"}) =>
        /\ adminReq.response = StationNotFound
              => (adminReq.lookupOk /\ ~adminReq.existed)
        /\ (adminReq.lookup # "none" /\ ~adminReq.lookupOk)
              => adminReq.response.status >= 500

\* C22 (as claimed): POST /api/admin/stations never adds a station whose id
\* already exists: whenever a POST has gone on to locationManager.add, the id
\* is not in the registry, whether its lookup failed upstream or another
\* request added the same id in the meantime; such a POST is answered 409.
C22_PostNeverAddsExistingId ==
    /\ (adminReq.op = "POST" /\ adminReq.pc = "awaitMutate")
          => adminReq.id \notin DOMAIN registry
    /\ (adminReq.op = "POST" /\ adminReq.pc = "done" /\ adminReq.existed)
          => adminReq.response.status \in {400, 409}

\* The 'stations' entry holds stations written with the placeholder metadata
PlaceholdersCached ==
    /\ StationsKey \in DOMAIN apiCache
    /\ \E m \in apiCache[StationsKey].data :
          /\ m.name = DefaultName(m.id)
          /\ m.address = DefaultAddress
          /\ m.coordinates = DefaultCoordinates

\* C23 (as claimed): when locationManager.getAll fails during a station-poll
\* tick, the tick leaves the 'stations' entry as it was: no poll merge is made
\* without metadata, and the entry never holds the stations of such a merge
\* with the default name, address and coordinates.
C23_FailedMetadataKeepsEntry ==
    (lastMerge.route = "station poll" /\ lastMerge.info = {} /\ lastMerge.data # {})
        => ~(PlaceholdersCached /\ apiCache[StationsKey].data = lastMerge.stations)

\* The station-poll tick has fired at the present time
TickJustFired ==
    /\ loops["station"].pc = "fetching"
    /\ loops["station"].due = now + STATION_POLL_INTERVAL

\* The 'stations' entry is the one a poll tick wrote
PollEntryCached == lastMerge.route = "station poll" /\ StationsKey \in DOMAIN apiCache

\* C24 (as claimed): the 'stations' entry written by one tick is still fresh
\* when the next tick fires, so that a GET /api/stations that finds the entry
\* of the poller is served from it and does not go on to the supplier.
C24_PollEntryFreshAtNextTick ==
    /\ (TickJustFired /\ PollEntryCached) => Fresh(apiCache, StationsKey, now)
    /\ (lastRead.done /\ lastRead.key = StationsKey /\ lastRead.found
          /\ lastMerge.route = "station poll")
          => stReq.pc = "done"

\* C24 (amended): the entry a tick writes is fresh for CACHE_TTL = 10 s only.
\* When a tick fires a full poll interval or more after the entry was written
\* the entry is stale, and a GET /api/stations that finds the entry of the
\* poller 10 s or more after its write evicts it and goes on to
\* locationManager and the supplier; only a younger entry is served.
C24_PollEntryStaleAfterTtl ==
    /\ (TickJustFired /\ PollEntryCached
          /\ now - apiCache[StationsKey].timestamp >= STATION_POLL_INTERVAL)
          => ~Fresh(apiCache, StationsKey, now)
    /\ (lastRead.done /\ lastRead.key = StationsKey /\ lastRead.found
          /\ lastMerge.route = "station poll")
          => IF lastRead.at - lastRead.entry.timestamp >= CACHE_TTL
             THEN stReq.pc = "awaitGetAll" /\ StationsKey \notin DOMAIN apiCache
             ELSE stReq.pc = "done" /\ stReq.response = Response(200, lastRead.entry.data)

\* C24 witness: one poll interval after a tick wrote the entry, with no other
\* write since, a GET /api/stations found it stale and went on to the registry
C24_Witness ==
    /\ lastRead.done
    /\ lastRead.key = StationsKey
    /\ lastRead.found
    /\ lastMerge.route = "station poll"
    /\ lastRead.at - lastRead.entry.timestamp = STATION_POLL_INTERVAL
    /\ stReq.pc = "awaitGetAll"
    /\ ~loops["station"].lastFailed

----------------------------------------------------------------------------
(* C25: GET /:batteryId applies analytics tracking only to valid battery ids: a segment
   that is not a key of the battery id map is never handed to the tracking middleware,
   and a segment with a '.' or in the skip list goes to the next handler untracked *)
C25_TrackedOnlyValidIds ==
    /\ pageReq.handedTo = "trackAnalytics" => pageReq.segment \in DOMAIN batteryIdMap
    /\ (pageReq.handedTo # "none" /\ (IncludesDot(pageReq.segment) \/ pageReq.segment \in skipRoutes))
          => pageReq.handedTo = "next"

----------------------------------------------------------------------------
(* C26: for each request to one of the proxy's three API routes at most one response is
   written to the client in every order of the upstream 'data', 'end' and 'error'
   events, and an unparseable upstream body is answered
   500 {success: false, error: 'Failed to parse API response'} *)
C26_OneResponseEveryOrder ==
    /\ proxy.written <= 1
    /\ (proxy.ended /\ ~Parseable(proxy.data)) => proxy.response = ParseFailed

----------------------------------------------------------------------------
(* C27: initScanService creates a scan record only after the battery fetch for the
   sticker id of the path has succeeded with data that carries a manufacture_id, at
   most once per initialisation, and never when the path yields no sticker id
   ('', 'map', 'api'), the fetch fails or the data has no manufacture_id *)
C27_ScanRecordAfterFetch ==
    /\ scan.created <= 1
    /\ scan.created = 1 =>
          /\ scan.fetched = "data"
          /\ scan.batteryData.manufacture_id # << >>
          /\ scan.createdWith = <<Tail(scan.path), scan.batteryData.manufacture_id>>
    /\ scan.path \in {<<"/">>, <<"/", "map">>, <<"/", "api">>} =>
          (scan.created = 0 /\ scan.pc = "done" /\ scan.fetched = "none")
    /\ (scan.fetched = "null" \/ (scan.fetched = "data" /\ scan.batteryData.manufacture_id = << >>))
          => scan.created = 0

C27_Witness ==
    /\ scan.path = <<"/">> \o A1
    /\ scan.pc = "done"
    /\ scan.created = 1
    /\ scan.createdWith = <<A1, <<"M", "1">>>>

----------------------------------------------------------------------------
(* C28: after any sequence of showBatteryModal, startDurationTimer, stopDurationTimer
   and hideBatteryModal calls at most one duration interval timer is running,
   durationTimer is non-null exactly when one is running, and after hideBatteryModal
   (modal present) or stopDurationTimer none is running *)
Running == DOMAIN battModal.timers

C28_OneDurationTimer ==
    /\ Cardinality(Running) <= 1
    /\ battModal.durationTimer # 0 <=> Running # {}
    /\ Running \subseteq {battModal.durationTimer}
    /\ (\/ battModal.lastCall = "stopDurationTimer"
        \/ (battModal.lastCall = "hideBatteryModal" /\ battModal.document.batteryModal))
          => Running = {}

C28_Witness ==
    /\ battModal.lastCall = "startDurationTimer"
    /\ battModal.cleared
    /\ battModal.ticks > 0
    /\ Cardinality(Running) = 1
    /\ battModal.durationTimer \in Running

C28_WitnessHidden ==
    /\ battModal.lastCall = "hideBatteryModal"
    /\ battModal.cleared
    /\ battModal.durationTimer = 0
    /\ ~battModal.active

----------------------------------------------------------------------------
(* C29: parseDurationToSeconds and formatSecondsToDuration are inverse on well-formed
   input: parsing the formatted n gives n for every integer n >= 0, formatting the
   parsed s gives s for every 'HH:MM:SS' with two-digit fields and MM, SS < 60, and a
   string without exactly three ':'-separated parts parses to 0 *)
IsWellFormed(s) ==
    /\ Len(s) = 8
    /\ s[3] = ":" /\ s[6] = ":"
    /\ \A i \in {1, 2, 4, 5, 7, 8} : IsDigit(s[i])
    /\ DigitValue(s[4]) < 6 /\ DigitValue(s[7]) < 6

Colons(s) == Cardinality({i \in DOMAIN s : s[i] = ":"})

C29_InverseOnWellFormed ==
    /\ (dur.of = "seconds" /\ dur.seconds >= 0) => dur.parsed = dur.seconds
    /\ (dur.of = "string" /\ IsWellFormed(dur.string)) => dur.formatted = dur.string
    /\ (dur.of = "string" /\ Colons(dur.string) # 2) => dur.parsed = 0

C29_Witness ==
    /\ dur.of = "string"
    /\ IsWellFormed(dur.string)
    /\ dur.parsed = 9 * 3600 + 58 * 60 + 59
    /\ dur.formatted = dur.string

C29_WitnessThreeDigitHours ==
    dur.of = "seconds" /\ dur.seconds = 360001 /\ Len(dur.formatted) = 9 /\ dur.parsed = 360001

----------------------------------------------------------------------------
(* C30: after any sequence of selectStation and hideStationModal calls selectedStation
   is null exactly when selectedStationId is null, selectedStationId is
   selectedStation.id otherwise, the GeoJSON last pushed to the 'stations' source marks
   selected = true exactly for the stations whose id is selectedStationId, and the
   directions button navigates only when a station is selected *)
C30_SelectionConsistent ==
    /\ mapView.selectedStation.isNull <=> mapView.selectedStationId = NoStationId
    /\ ~mapView.selectedStation.isNull => mapView.selectedStationId = mapView.selectedStation.id
    /\ \A feature \in mapView.sourceData :
          feature.selected <=> feature.id = mapView.selectedStationId
    /\ mapView.lastClick = "navigated" =>
          /\ ~mapView.selectedStation.isNull
          /\ mapView.href[2] = mapView.selectedStation.latitude
          /\ mapView.href[4] = mapView.selectedStation.longitude

C30_Witness ==
    /\ mapView.pushes >= 2
    /\ mapView.selectedStationId = "S1"
    /\ Cardinality({feature \in mapView.sourceData : feature.selected}) = 2
    /\ \E feature \in mapView.sourceData : ~feature.selected
    /\ mapView.lastClick = "navigated"

C30_WitnessHidden ==
    /\ mapView.pushes >= 2
    /\ mapView.selectedStation.isNull
    /\ mapView.sourceData # {}
    /\ mapView.lastClick = "ignored"

====
